---- MODULE Spec2Model ----
(***************************************************************************)
(* Model of the appointment-to-client matcher (CalendarService.js,         *)
(* DialogHandler.js) and of the pipe-delimited list helpers                *)
(* (PipeDelimitedHelpers.js).                                              *)
(*                                                                         *)
(* A JavaScript string is modelled as a sequence of one-character strings, *)
(* so that trim, toLowerCase, includes, split and join are computed        *)
(* character by character.                                                 *)
(***************************************************************************)
EXTENDS Integers, Sequences, FiniteSets

VARIABLES
    appointment,      \* the appointment being enhanced: extractedClientId, extractedClientName
    allClients,       \* what getAllClients(sheetName) returns: a list of {id, name}
    pc,               \* matcher position: "idle", "enhanced", "unavailable", "matchError", "scored"
    matchedClient,    \* result field matchedClient (a client or Null)
    hasClientMatch,   \* result field hasClientMatch
    matchConfidence,  \* result field matchConfidence
    scoredClient,     \* the client handed to calculateMatchConfidence
    data,             \* the pipe-delimited field value handed to a helper
    op,               \* the helper that ran last: "none", "addItem", "removeItem", ...
    arg,              \* the item argument of that helper (newItem, itemToRemove, oldItem), or the value parse was called with when it is not a string
    flag,             \* the allowDuplicates argument of addItem, removeDuplicates of merge
    order,            \* the newOrder argument of reorderItems
    result,           \* the value the helper returned
    arg2,             \* the newItem argument of updateItem
    list,             \* the array argument of stringify (items) and merge (dataArray)
    opts,             \* the options argument of clean
    title,            \* the event title handed to extractClientFromTitle
    extracted,        \* what extractClientFromTitle returned: {name, id}; Null before the call
    called,           \* the function called with arguments of any type; "none" before the call
    actual,           \* the arguments of that call, as values
    outcome,          \* how the call ended: a returned value or an exception
    clientRows,       \* the rows of the Clients sheet: ID, Name, Email, Session_History
    sessionRows,      \* the rows of the Sessions sheet: Session_ID, Status
    formResponse,     \* the form response handed to processFormResponse
    rowsBefore,       \* the rows of the Clients sheet when processFormResponse was called
    formCalls,        \* the writes processFormResponse attempted, in order, with their results
    formReturned,     \* what processFormResponse returned
    formPc,           \* form processing position: "idle", "processed"
    submitted,        \* form.getResponses(): the timestamps of the form's responses, in order
    lastProcessedProperty,\* the script property LAST_PROCESSED_<formId>
    handedOver,       \* per response, how often it was handed to processFormResponse
    clock,            \* the clock that stamps submissions
    runs,             \* the runs of processNewFormResponses so far
    processedCount,   \* what the last run of processNewFormResponses returned
    retryPc,          \* position in getAppointmentsInRangeWithRetry: "idle", "attempt", "fallback", "returned", "raised"
    attempt,          \* the loop variable attempt
    primaryAttempts,  \* calls of getAppointmentsInRange so far
    errors,           \* the errors the primary attempts threw, in order
    sleeps,           \* the calls of Utilities.sleep: after which attempt, for how long
    fallbackOutcome,  \* getAppointmentsFallback: "none" (not called), "ok", "failed"
    retryResult,      \* how the call ended: "none", "primary", "fallback", "error"
    sessionSheet,     \* the rows of the Sessions sheet below the header row
    sheetBefore,      \* the rows of the Sessions sheet when createOrUpdateSession was called
    sessionData,      \* the argument of the last createOrUpdateSession call
    sessionReturned,  \* what the last call returned: a session id, 0 for null
    sessionCalls,     \* the calls so far; the clock that new Date() reads
    goalsCell,        \* the Goals column of the client's row: a pipe-delimited text
    goalCall,         \* the last GoalManagementService call: its name and arguments
    goalThrew,        \* whether the last call raised an error
    therapyConfig,    \* the script property THERAPY_CONFIG: whether it is stored, and its three sections
    configCall        \* the last ConfigurationService operation and what it returned

matchVars == <<appointment, allClients, pc, matchedClient, hasClientMatch,
               matchConfidence, scoredClient>>
storeVars == <<data, op, arg, flag, order, result, arg2, list, opts>>
titleVars == <<title, extracted>>
callVars == <<called, actual, outcome>>
formVars == <<clientRows, sessionRows, formResponse, rowsBefore, formCalls,
              formReturned, formPc>>
triggerVars == <<submitted, lastProcessedProperty, handedOver, clock, runs,
                 processedCount>>
retryVars == <<retryPc, attempt, primaryAttempts, errors, sleeps,
               fallbackOutcome, retryResult>>
sessionVars == <<sessionSheet, sheetBefore, sessionData, sessionReturned,
                 sessionCalls>>
goalVars == <<goalsCell, goalCall, goalThrew>>
configVars == <<therapyConfig, configCall>>
vars == <<matchVars, storeVars, titleVars, callVars, formVars, triggerVars,
          retryVars, sessionVars, goalVars, configVars>>

\* what a step of one component leaves alone: the variables of the others
matchFrame == <<storeVars, titleVars, callVars, formVars, triggerVars,
                retryVars, sessionVars, goalVars, configVars>>
storeFrame == <<matchVars, titleVars, callVars, formVars, triggerVars,
                retryVars, sessionVars, goalVars, configVars>>
titleFrame == <<matchVars, storeVars, callVars, formVars, triggerVars,
                retryVars, sessionVars, goalVars, configVars>>
callFrame == <<matchVars, storeVars, titleVars, formVars, triggerVars,
               retryVars, sessionVars, goalVars, configVars>>
formFrame == <<matchVars, storeVars, titleVars, callVars, triggerVars,
               retryVars, sessionVars, goalVars, configVars>>
triggerFrame == <<matchVars, storeVars, titleVars, callVars, formVars,
                  retryVars, sessionVars, goalVars, configVars>>
retryFrame == <<matchVars, storeVars, titleVars, callVars, formVars,
                triggerVars, sessionVars, goalVars, configVars>>
sessionFrame == <<matchVars, storeVars, titleVars, callVars, formVars,
                  triggerVars, retryVars, goalVars, configVars>>
goalFrame == <<matchVars, storeVars, titleVars, callVars, formVars,
               triggerVars, retryVars, sessionVars, configVars>>
configFrame == <<matchVars, storeVars, titleVars, callVars, formVars,
                 triggerVars, retryVars, sessionVars, goalVars>>

----------------------------------------------------------------------------
(* Bounds *)

MaxClients == 2
MaxTextLen == 4
MaxItemLen == 2
MaxOrderLen == 2
MaxTabLen == 3
MaxListLen == 2
MaxTitleTokens == 4
MaxHistoryLen == 2
MaxValueLen == 2
MaxResponses == 3
MaxTime == 3
MaxRuns == 3
MaxSessionCalls == 2
MaxGoals == 3
MaxBulkGoals == 2

\* getCalendarConfig: the retry configuration
MAX_RETRIES == 3
RETRY_DELAY_MS == 1000

----------------------------------------------------------------------------
(* JavaScript string primitives *)

\* String.prototype.toLowerCase on one character
toLowerCaseChar(c) ==
    CASE c = "A" -> "a"
      [] c = "B" -> "b"
      [] c = "C" -> "c"
      [] c = "N" -> "n"
      [] c = "O" -> "o"
      [] c = "D" -> "d"
      [] c = "E" -> "e"
      [] c = "I" -> "i"
      [] c = "J" -> "j"
      [] c = "S" -> "s"
      [] c = "T" -> "t"
      [] OTHER -> c

toLowerCase(s) == [i \in 1..Len(s) |-> toLowerCaseChar(s[i])]

\* the characters String.prototype.trim strips
WhiteSpace == {" ", "\t", "\n", "\r"}

RECURSIVE trimStart(_)
trimStart(s) ==
    IF s # <<>> /\ Head(s) \in WhiteSpace THEN trimStart(Tail(s)) ELSE s

RECURSIVE trimEnd(_)
trimEnd(s) ==
    IF s # <<>> /\ s[Len(s)] \in WhiteSpace
    THEN trimEnd(SubSeq(s, 1, Len(s) - 1))
    ELSE s

trim(s) == trimEnd(trimStart(s))

\* String.prototype.includes: t occurs in s as a contiguous substring
includes(s, t) ==
    \E i \in 0..(Len(s) - Len(t)) : SubSeq(s, i + 1, i + Len(t)) = t

\* a string in a boolean context: the empty string is falsy
Truthy(s) == s # <<>>

----------------------------------------------------------------------------
(* Matcher: CalendarService.js *)

\* JavaScript null
Null == [null |-> TRUE]

\* Array.prototype.find: the first element, in list order, among those at the
\* positions hits (the positions that pass the callback), or nothing
findLast(clients, hits) ==
    IF hits = {} THEN Null
    ELSE clients[CHOOSE i \in hits : \A j \in hits : i >= j]

find(clients, hits) ==
    IF hits = {} THEN Null
    ELSE clients[CHOOSE i \in hits : \A j \in hits : i <= j]

\* the predicate of the byId search
idTest(appt, client) ==
    /\ Truthy(client.id)
    /\ toLowerCase(client.id) = toLowerCase(appt.extractedClientId)

\* const extractedName = appointment.extractedClientName.toLowerCase().trim()
extractedNameOf(appt) == trim(toLowerCase(appt.extractedClientName))

\* the predicate of the exactMatch search
exactTest(appt, client) ==
    /\ Truthy(client.name)
    /\ toLowerCase(client.name) = extractedNameOf(appt)

\* the predicate of the partialMatch search
partialTest(appt, client) ==
    /\ Truthy(client.name)
    /\ \/ includes(toLowerCase(client.name), extractedNameOf(appt))
       \/ includes(extractedNameOf(appt), toLowerCase(client.name))

\* the three searches of the cascade, each Null when it is skipped or finds nothing
byId(appt, clients) ==
    IF Truthy(appt.extractedClientId)
    THEN find(clients, {i \in 1..Len(clients) : idTest(appt, clients[i])})
    ELSE Null

exactMatch(appt, clients) ==
    IF Truthy(appt.extractedClientName)
    THEN find(clients, {i \in 1..Len(clients) : exactTest(appt, clients[i])})
    ELSE Null

partialMatch(appt, clients) ==
    IF Truthy(appt.extractedClientName)
    THEN find(clients, {i \in 1..Len(clients) : partialTest(appt, clients[i])})
    ELSE Null

\* the cascade with the name searches tried before the identifier search
matchNameFirst(appt, clients) ==
    IF clients = <<>> THEN Null
    ELSE IF exactMatch(appt, clients) # Null THEN exactMatch(appt, clients)
    ELSE IF partialMatch(appt, clients) # Null THEN partialMatch(appt, clients)
    ELSE IF byId(appt, clients) # Null THEN byId(appt, clients)
    ELSE Null

\* the cascade as an else-if chain: the name searches run only when no
\* identifier was extracted
matchElseIf(appt, clients) ==
    IF clients = <<>> THEN Null
    ELSE IF Truthy(appt.extractedClientId) THEN byId(appt, clients)
    ELSE IF exactMatch(appt, clients) # Null THEN exactMatch(appt, clients)
    ELSE IF partialMatch(appt, clients) # Null THEN partialMatch(appt, clients)
    ELSE Null

\* matchAppointmentToClient, with clients the list getAllClients returned
matchAppointmentToClient(appt, clients) ==
    IF clients = <<>> THEN Null
    ELSE IF byId(appt, clients) # Null THEN byId(appt, clients)
    ELSE IF exactMatch(appt, clients) # Null THEN exactMatch(appt, clients)
    ELSE IF partialMatch(appt, clients) # Null THEN partialMatch(appt, clients)
    ELSE Null

\* the return statement of matchAppointmentToClient that produced the result
selectedBy(appt, clients) ==
    IF clients = <<>> THEN "none"
    ELSE IF byId(appt, clients) # Null THEN "id"
    ELSE IF exactMatch(appt, clients) # Null THEN "exact"
    ELSE IF partialMatch(appt, clients) # Null THEN "partial"
    ELSE "none"

\* the scoring with the final fallback returning 'none' instead of 'low'
confidenceNoneFallback(appt, client) ==
    IF client = Null THEN "none"
    ELSE IF /\ Truthy(appt.extractedClientId)
            /\ Truthy(client.id)
            /\ toLowerCase(client.id) = toLowerCase(appt.extractedClientId)
    THEN "high"
    ELSE IF /\ Truthy(appt.extractedClientName)
            /\ Truthy(client.name)
            /\ toLowerCase(client.name) = toLowerCase(appt.extractedClientName)
    THEN "high"
    ELSE IF /\ Truthy(appt.extractedClientName)
            /\ Truthy(client.name)
            /\ \/ includes(toLowerCase(client.name),
                           toLowerCase(appt.extractedClientName))
               \/ includes(toLowerCase(appt.extractedClientName),
                           toLowerCase(client.name))
    THEN "medium"
    ELSE "none"

\* the scoring with the containment tested in one direction only
confidenceOneWay(appt, client) ==
    IF client = Null THEN "none"
    ELSE IF /\ Truthy(appt.extractedClientId)
            /\ Truthy(client.id)
            /\ toLowerCase(client.id) = toLowerCase(appt.extractedClientId)
    THEN "high"
    ELSE IF /\ Truthy(appt.extractedClientName)
            /\ Truthy(client.name)
            /\ toLowerCase(client.name) = toLowerCase(appt.extractedClientName)
    THEN "high"
    ELSE IF /\ Truthy(appt.extractedClientName)
            /\ Truthy(client.name)
            /\ includes(toLowerCase(client.name),
                        toLowerCase(appt.extractedClientName))
    THEN "medium"
    ELSE "low"

calculateMatchConfidence(appt, client) ==
    IF client = Null THEN "none"
    ELSE IF /\ Truthy(appt.extractedClientId)
            /\ Truthy(client.id)
            /\ toLowerCase(client.id) = toLowerCase(appt.extractedClientId)
    THEN "high"
    ELSE IF /\ Truthy(appt.extractedClientName)
            /\ Truthy(client.name)
            /\ toLowerCase(client.name) = toLowerCase(appt.extractedClientName)
    THEN "high"
    ELSE IF /\ Truthy(appt.extractedClientName)
            /\ Truthy(client.name)
            /\ \/ includes(toLowerCase(client.name),
                           toLowerCase(appt.extractedClientName))
               \/ includes(toLowerCase(appt.extractedClientName),
                           toLowerCase(client.name))
    THEN "medium"
    ELSE "low"

----------------------------------------------------------------------------
(* Matcher inputs *)

\* extractedClientId values: absent, and an identifier in upper case
ApptIds == { <<>>, <<"C", "1">> }

\* client identifiers: absent, two spellings of one identifier, another one
ClientIds == { <<>>, <<"c", "1">>, <<"C", "1">>, <<"c", "2">> }

\* names: absent, blank, a short name, a name in two spellings and with
\* leading whitespace, and an unrelated name
Names == { <<>>, <<" ">>, <<"a", "n">>, <<"a", "n", "n">>, <<"A", "n", "n">>,
           <<" ", "a", "n", "n">>, <<"b", "o">> }

Appointments == [extractedClientId : ApptIds, extractedClientName : Names]

Clients == [id : ClientIds, name : Names]

ClientLists == UNION { [1..n -> Clients] : n \in 0..MaxClients }

----------------------------------------------------------------------------
(* Matcher operations *)

MatchInit ==
    /\ appointment \in Appointments
    /\ allClients \in ClientLists
    /\ pc = "idle"
    /\ matchedClient = Null
    /\ hasClientMatch = FALSE
    /\ matchConfidence = "none"
    /\ scoredClient = Null
    /\ data = <<>>
    /\ op = "none"
    /\ arg = <<>>
    /\ flag = FALSE
    /\ order = <<>>
    /\ result = <<>>
    /\ arg2 = <<>>
    /\ list = <<>>
    /\ opts = [removeDuplicates |-> TRUE, removeEmpty |-> TRUE,
               trimItems |-> TRUE, removeLineBreaks |-> TRUE]
    /\ title = <<>>
    /\ extracted = [null |-> TRUE]
    /\ called = "none"
    /\ actual = <<>>
    /\ outcome = [threw |-> FALSE, caught |-> FALSE, value |-> [type |-> "undefined", text |-> <<>>, parts |-> <<>>]]
    /\ clientRows = <<>>
    /\ sessionRows = <<>>
    /\ formResponse = [valid |-> FALSE]
    /\ rowsBefore = <<>>
    /\ formCalls = <<>>
    /\ formReturned = FALSE
    /\ formPc = "idle"
    /\ submitted = <<>>
    /\ lastProcessedProperty = [set |-> FALSE, value |-> 0]
    /\ handedOver = <<>>
    /\ clock = 1
    /\ runs = 0
    /\ processedCount = 0
    /\ retryPc = "idle"
    /\ attempt = 1
    /\ primaryAttempts = 0
    /\ errors = <<>>
    /\ sleeps = <<>>
    /\ fallbackOutcome = "none"
    /\ retryResult = "none"
    /\ sessionSheet = <<>>
    /\ sheetBefore = <<>>
    /\ sessionData = [sheetUp |-> FALSE]
    /\ sessionReturned = 0
    /\ sessionCalls = 0
    /\ goalsCell = <<>>
    /\ goalCall = [op |-> "none"]
    /\ goalThrew = FALSE
    /\ therapyConfig = [stored |-> FALSE]
    /\ configCall = [op |-> "none", returned |-> FALSE]

\* the map callback of enhanceAppointmentsWithStatus and of
\* getAppointmentsWithClientMatches: search, then score the result
EnhanceAppointment ==
    /\ pc = "idle"
    /\ matchedClient' = matchAppointmentToClient(appointment, allClients)
    /\ hasClientMatch' = (matchedClient' # Null)
    /\ matchConfidence' = calculateMatchConfidence(appointment, matchedClient')
    /\ scoredClient' = matchedClient'
    /\ pc' = "enhanced"
    /\ UNCHANGED <<appointment, allClients, matchFrame>>

\* matchAppointmentToClient when getAllClients is undefined or throws: it
\* returns null, which is then scored
EnhanceClientsUnavailable ==
    /\ pc = "idle"
    /\ matchedClient' = Null
    /\ hasClientMatch' = (matchedClient' # Null)
    /\ matchConfidence' = calculateMatchConfidence(appointment, matchedClient')
    /\ scoredClient' = matchedClient'
    /\ pc' = "unavailable"
    /\ UNCHANGED <<appointment, allClients, matchFrame>>

\* the catch (matchError) branch of the map callback
EnhanceMatchError ==
    /\ pc = "idle"
    /\ matchedClient' = Null
    /\ hasClientMatch' = FALSE
    /\ matchConfidence' = "none"
    /\ scoredClient' = Null
    /\ pc' = "matchError"
    /\ UNCHANGED <<appointment, allClients, matchFrame>>

\* calculateMatchConfidence called on a pair the caller supplies: any client
\* of the list, or null
ScorePair ==
    /\ pc = "idle"
    /\ \E c \in {allClients[i] : i \in 1..Len(allClients)} \cup {Null} :
          /\ scoredClient' = c
          /\ matchConfidence' = calculateMatchConfidence(appointment, c)
    /\ pc' = "scored"
    /\ UNCHANGED <<appointment, allClients, matchedClient, hasClientMatch, matchFrame>>

MatchNext ==
    \/ EnhanceAppointment
    \/ EnhanceClientsUnavailable
    \/ EnhanceMatchError
    \/ ScorePair


----------------------------------------------------------------------------
(* Pipe-delimited lists: PipeDelimitedHelpers.js *)

\* the elements of a list, as a set
Range(items) == {items[i] : i \in 1..Len(items)}

\* String.prototype.split('|'): the pieces between separators, empty ones kept
RECURSIVE split(_)
split(s) ==
    LET seps == {i \in 1..Len(s) : s[i] = "|"}
    IN  IF seps = {} THEN <<s>>
        ELSE LET i == CHOOSE k \in seps : \A j \in seps : k <= j
             IN  <<SubSeq(s, 1, i - 1)>> \o split(SubSeq(s, i + 1, Len(s)))

\* join with a separator other than the one split looks for
RECURSIVE joinComma(_)
joinComma(items) ==
    IF items = <<>> THEN <<>>
    ELSE IF Len(items) = 1 THEN items[1]
    ELSE items[1] \o <<",">> \o joinComma(Tail(items))

\* Array.prototype.join('|')
RECURSIVE join(_)
join(items) ==
    IF items = <<>> THEN <<>>
    ELSE IF Len(items) = 1 THEN items[1]
    ELSE items[1] \o <<"|">> \o join(Tail(items))

\* items.map(item => item.trim()).filter(item => item.length > 0)
trimAndDropEmpty(items) ==
    SelectSeq([i \in 1..Len(items) |-> trim(items[i])], LAMBDA item : Len(item) > 0)

\* parse that trims the pieces but keeps the empty ones
parseKeepEmpty(text) ==
    IF ~Truthy(text) THEN <<>>
    ELSE [i \in 1..Len(split(text)) |-> trim(split(text)[i])]

\* parse(data) with the default trim = true
parse(text) ==
    IF ~Truthy(text) THEN <<>> ELSE trimAndDropEmpty(split(text))

\* parse called with a value that is not a string: v.type is what typeof
\* gives, v.truthy what the value is in a boolean context
parseValue(v) ==
    IF ~v.truthy \/ v.type # "string" THEN <<>> ELSE parse(v.text)

\* stringify that trims the items but keeps the empty ones
stringifyKeepEmpty(items) == join([i \in 1..Len(items) |-> trim(items[i])])

\* stringify(items) with the default trim = true
stringify(items) == join(trimAndDropEmpty(items))

\* addItem without the duplicate check
addItemAlways(text, newItem, allowDuplicates) ==
    IF ~Truthy(newItem) THEN text
    ELSE stringify(Append(parse(text), trim(newItem)))

addItem(text, newItem, allowDuplicates) ==
    IF ~Truthy(newItem) THEN text
    ELSE LET items == parse(text)
             trimmedNewItem == trim(newItem)
         IN  IF ~allowDuplicates /\ trimmedNewItem \in Range(items)
             THEN text
             ELSE stringify(Append(items, trimmedNewItem))

\* a list without the first element equal to item
RECURSIVE dropFirst(_, _)
dropFirst(items, item) ==
    IF items = <<>> THEN <<>>
    ELSE IF Head(items) = item THEN Tail(items)
    ELSE <<Head(items)>> \o dropFirst(Tail(items), item)

\* removeItem dropping only the first occurrence
removeFirstOnly(text, itemToRemove) ==
    IF ~Truthy(text) \/ ~Truthy(itemToRemove) THEN text
    ELSE stringify(dropFirst(parse(text), trim(itemToRemove)))

\* removeItem with the filter inverted: only the entries equal to the item stay
removeItemInverted(text, itemToRemove) ==
    IF ~Truthy(text) \/ ~Truthy(itemToRemove) THEN text
    ELSE stringify(SelectSeq(parse(text), LAMBDA item : item = trim(itemToRemove)))

removeItem(text, itemToRemove) ==
    IF ~Truthy(text) \/ ~Truthy(itemToRemove) THEN text
    ELSE LET items == parse(text)
             trimmedItem == trim(itemToRemove)
         IN  stringify(SelectSeq(items, LAMBDA item : item # trimmedItem))

reorderItems(text, newOrder) ==
    IF ~Truthy(text) THEN text
    ELSE LET currentItems == parse(text)
             validNewOrder ==
                 SelectSeq(newOrder, LAMBDA item : item \in Range(currentItems))
             missingItems ==
                 SelectSeq(currentItems, LAMBDA item : item \notin Range(newOrder))
         IN  stringify(validNewOrder \o missingItems)

\* updateItem replacing only the first entry equal to oldItem
updateFirstOnly(text, oldItem, newItem) ==
    IF ~Truthy(text) \/ ~Truthy(oldItem) \/ ~Truthy(newItem) THEN text
    ELSE LET items == parse(text)
             hits == {i \in 1..Len(items) : items[i] = trim(oldItem)}
         IN  stringify([i \in 1..Len(items) |->
                 IF i \in hits /\ (\A j \in hits : i <= j)
                 THEN trim(newItem) ELSE items[i]])

updateItem(text, oldItem, newItem) ==
    IF ~Truthy(text) \/ ~Truthy(oldItem) \/ ~Truthy(newItem) THEN text
    ELSE LET items == parse(text)
             trimmedOldItem == trim(oldItem)
             trimmedNewItem == trim(newItem)
         IN  stringify([i \in 1..Len(items) |->
                 IF items[i] = trimmedOldItem THEN trimmedNewItem ELSE items[i]])

\* contains looking for the item in the text instead of in the parsed list
containsSubstring(text, item) ==
    IF ~Truthy(text) \/ ~Truthy(item) THEN FALSE
    ELSE includes(text, trim(item))

contains(text, item) ==
    IF ~Truthy(text) \/ ~Truthy(item) THEN FALSE
    ELSE trim(item) \in Range(parse(text))

getCount(text) == IF ~Truthy(text) THEN 0 ELSE Len(parse(text))

\* each item once, at the place of its last occurrence
RECURSIVE uniqueKeepLast(_)
uniqueKeepLast(items) ==
    IF items = <<>> THEN <<>>
    ELSE IF Head(items) \in Range(Tail(items)) THEN uniqueKeepLast(Tail(items))
    ELSE <<Head(items)>> \o uniqueKeepLast(Tail(items))

\* [...new Set(items)]: each item once, at the place of its first occurrence
RECURSIVE uniqueItems(_)
uniqueItems(items) ==
    IF items = <<>> THEN <<>>
    ELSE LET front == uniqueItems(SubSeq(items, 1, Len(items) - 1))
             last == items[Len(items)]
         IN  IF last \in Range(front) THEN front ELSE Append(front, last)

\* the forEach of merge: the parsed items of every non-empty string, in order
RECURSIVE allItemsOf(_)
allItemsOf(dataArray) ==
    IF dataArray = <<>> THEN <<>>
    ELSE (IF Truthy(Head(dataArray)) THEN parse(Head(dataArray)) ELSE <<>>)
         \o allItemsOf(Tail(dataArray))

merge(dataArray, removeDuplicates) ==
    IF removeDuplicates
    THEN stringify(uniqueItems(allItemsOf(dataArray)))
    ELSE stringify(allItemsOf(dataArray))

\* parse(data, false): the raw pieces, untrimmed, empty ones kept
parseRaw(text) == IF ~Truthy(text) THEN <<>> ELSE split(text)

\* the characters the validate and clean helpers look for
LineBreaks == {"\n", "\r", "\t"}

\* the issues array of validate: one entry per kind found, with its count
issuesOf(items) ==
    LET emptyItems == SelectSeq(items, LAMBDA item : trim(item) = <<>>)
        uniques == uniqueItems(items)
        problematicItems ==
            SelectSeq(items, LAMBDA item : Range(item) \cap LineBreaks # {})
    IN  (IF Len(emptyItems) > 0
         THEN <<[kind |-> "empty items", count |-> Len(emptyItems)]>> ELSE <<>>)
        \o (IF Len(uniques) # Len(items)
            THEN <<[kind |-> "duplicate items", count |-> Len(items) - Len(uniques)]>>
            ELSE <<>>)
        \o (IF Len(problematicItems) > 0
            THEN <<[kind |-> "items with line breaks or tabs",
                    count |-> Len(problematicItems)]>>
            ELSE <<>>)

validate(text) ==
    IF ~Truthy(text) THEN [valid |-> TRUE, itemCount |-> 0, issues |-> <<>>]
    ELSE LET items == parse(text)
         IN  [valid |-> (Len(issuesOf(items)) = 0),
              itemCount |-> Len(items),
              uniqueItemCount |-> Len(uniqueItems(items)),
              issues |-> issuesOf(items)]

\* item.replace(/\s+/g, ' '): every run of whitespace becomes one blank
RECURSIVE collapseRuns(_)
collapseRuns(s) ==
    IF s = <<>> THEN <<>>
    ELSE IF Head(s) \in WhiteSpace
    THEN <<" ">> \o collapseRuns(trimStart(s))
    ELSE <<Head(s)>> \o collapseRuns(Tail(s))

\* item.replace(/[\n\r\t]/g, ' ').replace(/\s+/g, ' ').trim()
removeBreaks(item) ==
    trim(collapseRuns([i \in 1..Len(item) |->
                          IF item[i] \in LineBreaks THEN " " ELSE item[i]]))

defaultOptions ==
    [removeDuplicates |-> TRUE, removeEmpty |-> TRUE,
     trimItems |-> TRUE, removeLineBreaks |-> TRUE]

clean(text, options) ==
    IF ~Truthy(text) THEN <<>>
    ELSE LET parsed == IF options.trimItems THEN parse(text) ELSE parseRaw(text)
             nonEmpty == IF options.removeEmpty
                         THEN SelectSeq(parsed, LAMBDA item : Len(trim(item)) > 0)
                         ELSE parsed
             unbroken == IF options.removeLineBreaks
                         THEN [i \in 1..Len(nonEmpty) |-> removeBreaks(nonEmpty[i])]
                         ELSE nonEmpty
             deduped == IF options.removeDuplicates
                        THEN uniqueItems(unbroken)
                        ELSE unbroken
         IN  stringify(deduped)

----------------------------------------------------------------------------
(* Pipe-delimited list inputs *)

\* the characters of field values and items: two letters, the separator, a blank
StoreChars == {"A", "B", "|", " "}

StringsUpTo(n) == UNION { [1..k -> StoreChars] : k \in 0..n }

Texts == StringsUpTo(MaxTextLen)

Items == StringsUpTo(MaxItemLen)

\* entries of a newOrder array: items, one of them untrimmed
OrderItems == { <<"A">>, <<"B">>, <<" ", "A">> }

Orders == UNION { [1..k -> OrderItems] : k \in 0..MaxOrderLen }

\* short field values that may hold a tab
TabTexts == UNION { [1..k -> StoreChars \cup {"\t"}] : k \in 0..MaxTabLen }

\* oldItem arguments of updateItem: empty, present or absent, untrimmed
OldItems == { <<>>, <<"A">>, <<" ", "A">>, <<"B">>, <<"A", "B">> }

\* newItem arguments of updateItem: empty, blank, trimmed, untrimmed, and
\* one holding the separator
NewItems == { <<>>, <<" ">>, <<"B">>, <<" ", "B">>, <<"A", "|", "B">> }

\* the texts merged with the field value
MergeTexts == { <<>>, <<"A">>, <<"B", "|", "A">>, <<" ", "|", "B">> }

\* the dataArray arguments of merge that hold the field value
MergeLists(text) ==
    {<<text>>} \cup {<<text, t>> : t \in MergeTexts}
               \cup {<<t, text>> : t \in MergeTexts}

\* the options arguments of clean
Options == [removeDuplicates : BOOLEAN, removeEmpty : BOOLEAN,
            trimItems : BOOLEAN, removeLineBreaks : BOOLEAN]

\* values that are not strings: undefined, null, 0, 7, an array
NonStrings ==
    { [type |-> "undefined", truthy |-> FALSE],
      [type |-> "object", truthy |-> FALSE],
      [type |-> "number", truthy |-> FALSE],
      [type |-> "number", truthy |-> TRUE],
      [type |-> "object", truthy |-> TRUE] }

\* the items arguments of stringify
ItemArrays == UNION { [1..k -> Items] : k \in 0..MaxListLen }

----------------------------------------------------------------------------
(* Pipe-delimited list operations *)

StoreInit ==
    /\ data \in Texts \cup TabTexts
    /\ op = "none"
    /\ arg = <<>>
    /\ flag = FALSE
    /\ order = <<>>
    /\ result = <<>>
    /\ arg2 = <<>>
    /\ list = <<>>
    /\ opts = defaultOptions
    /\ appointment = [extractedClientId |-> <<>>, extractedClientName |-> <<>>]
    /\ allClients = <<>>
    /\ pc = "idle"
    /\ matchedClient = Null
    /\ hasClientMatch = FALSE
    /\ matchConfidence = "none"
    /\ scoredClient = Null
    /\ title = <<>>
    /\ extracted = [null |-> TRUE]
    /\ called = "none"
    /\ actual = <<>>
    /\ outcome = [threw |-> FALSE, caught |-> FALSE, value |-> [type |-> "undefined", text |-> <<>>, parts |-> <<>>]]
    /\ clientRows = <<>>
    /\ sessionRows = <<>>
    /\ formResponse = [valid |-> FALSE]
    /\ rowsBefore = <<>>
    /\ formCalls = <<>>
    /\ formReturned = FALSE
    /\ formPc = "idle"
    /\ submitted = <<>>
    /\ lastProcessedProperty = [set |-> FALSE, value |-> 0]
    /\ handedOver = <<>>
    /\ clock = 1
    /\ runs = 0
    /\ processedCount = 0
    /\ retryPc = "idle"
    /\ attempt = 1
    /\ primaryAttempts = 0
    /\ errors = <<>>
    /\ sleeps = <<>>
    /\ fallbackOutcome = "none"
    /\ retryResult = "none"
    /\ sessionSheet = <<>>
    /\ sheetBefore = <<>>
    /\ sessionData = [sheetUp |-> FALSE]
    /\ sessionReturned = 0
    /\ sessionCalls = 0
    /\ goalsCell = <<>>
    /\ goalCall = [op |-> "none"]
    /\ goalThrew = FALSE
    /\ therapyConfig = [stored |-> FALSE]
    /\ configCall = [op |-> "none", returned |-> FALSE]

AddItem ==
    /\ op = "none"
    /\ \E newItem \in Items, allowDuplicates \in BOOLEAN :
          /\ arg' = newItem
          /\ flag' = allowDuplicates
          /\ result' = addItem(data, newItem, allowDuplicates)
    /\ op' = "addItem"
    /\ UNCHANGED <<data, order, arg2, list, opts, storeFrame>>

RemoveItem ==
    /\ op = "none"
    /\ \E itemToRemove \in Items :
          /\ arg' = itemToRemove
          /\ result' = removeItem(data, itemToRemove)
    /\ op' = "removeItem"
    /\ UNCHANGED <<data, flag, order, arg2, list, opts, storeFrame>>

ReorderItems ==
    /\ op = "none"
    /\ \E newOrder \in Orders :
          /\ order' = newOrder
          /\ result' = reorderItems(data, newOrder)
    /\ op' = "reorderItems"
    /\ UNCHANGED <<data, arg, flag, arg2, list, opts, storeFrame>>

UpdateItem ==
    /\ op = "none"
    /\ \E oldItem \in OldItems, newItem \in NewItems :
          /\ arg' = oldItem
          /\ arg2' = newItem
          /\ result' = updateItem(data, oldItem, newItem)
    /\ op' = "updateItem"
    /\ UNCHANGED <<data, flag, order, list, opts, storeFrame>>

Merge ==
    /\ op = "none"
    /\ \E dataArray \in MergeLists(data), removeDuplicates \in BOOLEAN :
          /\ list' = dataArray
          /\ flag' = removeDuplicates
          /\ result' = merge(dataArray, removeDuplicates)
    /\ op' = "merge"
    /\ UNCHANGED <<data, arg, arg2, order, opts, storeFrame>>

Parse ==
    /\ op = "none"
    /\ result' = parse(data)
    /\ op' = "parse"
    /\ UNCHANGED <<data, arg, arg2, flag, order, list, opts, storeFrame>>

ParseNonString ==
    /\ op = "none"
    /\ \E v \in NonStrings :
          /\ arg' = v
          /\ result' = parseValue(v)
    /\ op' = "parseNonString"
    /\ UNCHANGED <<data, arg2, flag, order, list, opts, storeFrame>>

Validate ==
    /\ op = "none"
    /\ result' = validate(data)
    /\ op' = "validate"
    /\ UNCHANGED <<data, arg, arg2, flag, order, list, opts, storeFrame>>

Clean ==
    /\ op = "none"
    /\ \E options \in Options :
          /\ opts' = options
          /\ result' = clean(data, options)
    /\ op' = "clean"
    /\ UNCHANGED <<data, arg, arg2, flag, order, list, storeFrame>>

StoreNext ==
    \/ AddItem
    \/ RemoveItem
    \/ ReorderItems
    \/ UpdateItem
    \/ Merge
    \/ Parse
    \/ ParseNonString
    \/ Validate
    \/ Clean

\* stringify called on an array of items
ListInit ==
    /\ list \in ItemArrays
    /\ data = <<>>
    /\ op = "none"
    /\ arg = <<>>
    /\ flag = FALSE
    /\ order = <<>>
    /\ result = <<>>
    /\ arg2 = <<>>
    /\ opts = defaultOptions
    /\ appointment = [extractedClientId |-> <<>>, extractedClientName |-> <<>>]
    /\ allClients = <<>>
    /\ pc = "idle"
    /\ matchedClient = Null
    /\ hasClientMatch = FALSE
    /\ matchConfidence = "none"
    /\ scoredClient = Null
    /\ title = <<>>
    /\ extracted = [null |-> TRUE]
    /\ called = "none"
    /\ actual = <<>>
    /\ outcome = [threw |-> FALSE, caught |-> FALSE, value |-> [type |-> "undefined", text |-> <<>>, parts |-> <<>>]]
    /\ clientRows = <<>>
    /\ sessionRows = <<>>
    /\ formResponse = [valid |-> FALSE]
    /\ rowsBefore = <<>>
    /\ formCalls = <<>>
    /\ formReturned = FALSE
    /\ formPc = "idle"
    /\ submitted = <<>>
    /\ lastProcessedProperty = [set |-> FALSE, value |-> 0]
    /\ handedOver = <<>>
    /\ clock = 1
    /\ runs = 0
    /\ processedCount = 0
    /\ retryPc = "idle"
    /\ attempt = 1
    /\ primaryAttempts = 0
    /\ errors = <<>>
    /\ sleeps = <<>>
    /\ fallbackOutcome = "none"
    /\ retryResult = "none"
    /\ sessionSheet = <<>>
    /\ sheetBefore = <<>>
    /\ sessionData = [sheetUp |-> FALSE]
    /\ sessionReturned = 0
    /\ sessionCalls = 0
    /\ goalsCell = <<>>
    /\ goalCall = [op |-> "none"]
    /\ goalThrew = FALSE
    /\ therapyConfig = [stored |-> FALSE]
    /\ configCall = [op |-> "none", returned |-> FALSE]

Stringify ==
    /\ op = "none"
    /\ result' = stringify(list)
    /\ op' = "stringify"
    /\ UNCHANGED <<data, arg, arg2, flag, order, list, opts, storeFrame>>

\* parse called on the text stringify returned
ParseBack ==
    /\ op = "stringify"
    /\ data' = result
    /\ result' = parse(result)
    /\ op' = "parse"
    /\ UNCHANGED <<arg, arg2, flag, order, list, opts, storeFrame>>

ListNext ==
    \/ Stringify
    \/ ParseBack

----------------------------------------------------------------------------
(* Title parser: extractClientFromTitle, CalendarService.js *)

\* the keyword alternation of the two keyword patterns
Keywords ==
    { <<"t", "h", "e", "r", "a", "p", "y">>,
      <<"s", "e", "s", "s", "i", "o", "n">>,
      <<"c", "o", "u", "n", "s", "e", "l", "i", "n", "g">>,
      <<"a", "p", "p", "o", "i", "n", "t", "m", "e", "n", "t">>,
      <<"m", "e", "e", "t", "i", "n", "g">>,
      <<"c", "o", "n", "s", "u", "l", "t", "a", "t", "i", "o", "n">>,
      <<"t", "r", "e", "a", "t", "m", "e", "n", "t">> }

\* the character class [A-Z0-9], for the characters titles are made of
UpperOrDigit == {"A", "B", "C", "D", "E", "I", "J", "N", "O", "S", "T", "0", "1"}

\* \s* from position i: the first position at or after i that holds no
\* whitespace (Len(s) + 1 when there is none)
skipSpace(s, i) ==
    CHOOSE j \in i..(Len(s) + 1) :
        /\ \A k \in i..(j - 1) : s[k] \in WhiteSpace
        /\ j <= Len(s) => s[j] \notin WhiteSpace

\* (therapy|session|...) with the i flag at position i: the position after
\* the keyword, 0 when no keyword starts at i
keywordEnd(s, i) ==
    LET hits == {kw \in Keywords :
                    /\ i + Len(kw) - 1 <= Len(s)
                    /\ toLowerCase(SubSeq(s, i, i + Len(kw) - 1)) = kw}
    IN  IF hits = {} THEN 0 ELSE i + Len(CHOOSE kw \in hits : TRUE)

\* /\s*-\s*(keyword)\s*/ tried at position i: the position after the match,
\* 0 when it does not match there
hyphenKeywordEnd(s, i) ==
    LET a == skipSpace(s, i)
    IN  IF a > Len(s) \/ s[a] # "-" THEN 0
        ELSE LET e == keywordEnd(s, skipSpace(s, a + 1))
             IN  IF e = 0 THEN 0 ELSE skipSpace(s, e)

\* /\s*(keyword)\s*-?\s*/ tried at position i
keywordHyphenEnd(s, i) ==
    LET e == keywordEnd(s, skipSpace(s, i))
    IN  IF e = 0 THEN 0
        ELSE LET b == skipSpace(s, e)
             IN  IF b <= Len(s) /\ s[b] = "-" THEN skipSpace(s, b + 1) ELSE b

\* /\([^)]*\)/ tried at position i
parenthesesEnd(s, i) ==
    IF s[i] # "(" \/ ~(\E j \in (i + 1)..Len(s) : s[j] = ")") THEN 0
    ELSE 1 + CHOOSE j \in (i + 1)..Len(s) :
                 s[j] = ")" /\ \A k \in (i + 1)..(j - 1) : s[k] # ")"

\* one of the three patterns tried at position i
patternEnd(pattern, s, i) ==
    CASE pattern = "hyphenKeyword" -> hyphenKeywordEnd(s, i)
      [] pattern = "keywordHyphen" -> keywordHyphenEnd(s, i)
      [] pattern = "parentheses" -> parenthesesEnd(s, i)

\* String.prototype.replace(pattern, '') with the g flag: the matches are
\* taken from left to right, each search starting where the last match ended
RECURSIVE replaceAll(_, _)
replaceAll(s, pattern) ==
    LET starts == {i \in 1..Len(s) : patternEnd(pattern, s, i) # 0}
    IN  IF starts = {} THEN s
        ELSE LET i == CHOOSE k \in starts : \A j \in starts : k <= j
             IN  SubSeq(s, 1, i - 1)
                 \o replaceAll(SubSeq(s, patternEnd(pattern, s, i), Len(s)), pattern)

\* title.match(/\(([A-Z0-9]+)\)/): the places where the pattern matches
idMatches(s) ==
    {i \in 1..Len(s) :
        /\ s[i] = "("
        /\ \E j \in (i + 2)..Len(s) :
               /\ s[j] = ")"
               /\ \A k \in (i + 1)..(j - 1) : s[k] \in UpperOrDigit}

\* the capture group of the first match
idOf(s) ==
    LET i == CHOOSE k \in idMatches(s) : \A j \in idMatches(s) : k <= j
        j == CHOOSE k \in (i + 2)..Len(s) :
                 s[k] = ")" /\ \A m \in (i + 1)..(k - 1) : s[m] # ")"
    IN  SubSeq(s, i + 1, j - 1)

\* the title after the three replacements and the trim
cleanTitleOf(s) ==
    trim(replaceAll(replaceAll(replaceAll(s, "hyphenKeyword"), "keywordHyphen"),
                    "parentheses"))

\* extractClientFromTitle without the fallback to the original title
extractWithoutFallback(s) ==
    [name |-> cleanTitleOf(s),
     id |-> IF idMatches(s) # {} THEN idOf(s) ELSE <<>>]

extractClientFromTitle(s) ==
    [name |-> IF Truthy(cleanTitleOf(s)) THEN cleanTitleOf(s) ELSE s,
     id |-> IF idMatches(s) # {} THEN idOf(s) ELSE <<>>]

\* the words and separators titles are made of: two keywords, two names,
\* a blank, a hyphen, a parenthesized identifier and a parenthesized note
TitleTokens ==
    { <<"T", "h", "e", "r", "a", "p", "y">>,
      <<"s", "e", "s", "s", "i", "o", "n">>,
      <<"J", "o">>,
      <<"A", "l">>,
      <<" ">>,
      <<"-">>,
      <<"(", "C", "1", ")">>,
      <<"(", "x", ")">> }

\* "Therapy Session - John Doe (C001)"
ScenarioTitle ==
    <<"T", "h", "e", "r", "a", "p", "y", " ", "S", "e", "s", "s", "i", "o", "n",
      " ", "-", " ", "J", "o", "h", "n", " ", "D", "o", "e", " ",
      "(", "C", "0", "0", "1", ")">>

\* the tokens of a list written one after the other
RECURSIVE Flatten(_)
Flatten(tokens) ==
    IF tokens = <<>> THEN <<>> ELSE Head(tokens) \o Flatten(Tail(tokens))

Titles ==
    {Flatten(t) : t \in UNION { [1..k -> TitleTokens] : k \in 0..MaxTitleTokens }}
    \cup {ScenarioTitle}

TitleInit ==
    /\ title \in Titles
    /\ extracted = Null
    /\ appointment = [extractedClientId |-> <<>>, extractedClientName |-> <<>>]
    /\ allClients = <<>>
    /\ pc = "idle"
    /\ matchedClient = Null
    /\ hasClientMatch = FALSE
    /\ matchConfidence = "none"
    /\ scoredClient = Null
    /\ data = <<>>
    /\ op = "none"
    /\ arg = <<>>
    /\ flag = FALSE
    /\ order = <<>>
    /\ result = <<>>
    /\ arg2 = <<>>
    /\ list = <<>>
    /\ opts = defaultOptions
    /\ called = "none"
    /\ actual = <<>>
    /\ outcome = [threw |-> FALSE, caught |-> FALSE, value |-> [type |-> "undefined", text |-> <<>>, parts |-> <<>>]]
    /\ clientRows = <<>>
    /\ sessionRows = <<>>
    /\ formResponse = [valid |-> FALSE]
    /\ rowsBefore = <<>>
    /\ formCalls = <<>>
    /\ formReturned = FALSE
    /\ formPc = "idle"
    /\ submitted = <<>>
    /\ lastProcessedProperty = [set |-> FALSE, value |-> 0]
    /\ handedOver = <<>>
    /\ clock = 1
    /\ runs = 0
    /\ processedCount = 0
    /\ retryPc = "idle"
    /\ attempt = 1
    /\ primaryAttempts = 0
    /\ errors = <<>>
    /\ sleeps = <<>>
    /\ fallbackOutcome = "none"
    /\ retryResult = "none"
    /\ sessionSheet = <<>>
    /\ sheetBefore = <<>>
    /\ sessionData = [sheetUp |-> FALSE]
    /\ sessionReturned = 0
    /\ sessionCalls = 0
    /\ goalsCell = <<>>
    /\ goalCall = [op |-> "none"]
    /\ goalThrew = FALSE
    /\ therapyConfig = [stored |-> FALSE]
    /\ configCall = [op |-> "none", returned |-> FALSE]

ExtractClientFromTitle ==
    /\ extracted = Null
    /\ extracted' = extractClientFromTitle(title)
    /\ UNCHANGED <<title, titleFrame>>

TitleNext ==
    \/ ExtractClientFromTitle

----------------------------------------------------------------------------
(* Calls with arguments of any type: values, exceptions, try and catch *)

\* A JavaScript value: its type, its characters when it is a string or a
\* number, and its parts: the elements of an array, or the property values
\* <<id, name>> of an appointment or client object (for an appointment,
\* extractedClientId and extractedClientName)
JSValue(type, text, parts) == [type |-> type, text |-> text, parts |-> parts]

Undefined == JSValue("undefined", <<>>, <<>>)
JSNull == JSValue("null", <<>>, <<>>)
Zero == JSValue("number", <<"0">>, <<>>)
Seven == JSValue("number", <<"7">>, <<>>)
Str(s) == JSValue("string", s, <<>>)
Arr(items) == JSValue("array", <<>>, items)
Obj(id, name) == JSValue("object", <<>>, <<id, name>>)
Bool(b) == JSValue("boolean", IF b THEN <<"t">> ELSE <<"f">>, <<>>)
Fn(behaviour) == JSValue("function", <<behaviour>>, <<>>)

\* a number below ten
Num(k) ==
    JSValue("number", <<(<<"0", "1", "2", "3", "4", "5", "6", "7", "8", "9">>)[k + 1]>>, <<>>)

\* a value in a boolean context
IsTruthy(v) ==
    CASE v.type \in {"undefined", "null"} -> FALSE
      [] v.type = "number" -> v.text # <<"0">>
      [] v.type = "string" -> v.text # <<>>
      [] v.type = "boolean" -> v.text = <<"t">>
      [] OTHER -> TRUE

\* reading a property of undefined or null raises a TypeError
IsNullish(v) == v.type \in {"undefined", "null"}

\* v.id and v.name (v not nullish): undefined unless v is an object
idOfValue(v) == IF v.type = "object" THEN v.parts[1] ELSE Undefined
nameOfValue(v) == IF v.type = "object" THEN v.parts[2] ELSE Undefined

\* data || ''
orEmpty(v) == IF IsTruthy(v) THEN v ELSE Str(<<>>)

\* String(item) for the items the arrays of the model hold
toStringOf(v) ==
    CASE v.type = "string" -> v.text
      [] v.type = "number" -> v.text
      [] v.type = "null" -> <<"n", "u", "l", "l">>
      [] OTHER -> <<"u", "n", "d", "e", "f", "i", "n", "e", "d">>

\* how a function body ends: with a returned value or with an exception;
\* caught tells that the value comes from a catch block
Return(v) == [threw |-> FALSE, caught |-> FALSE, value |-> v]
Throw == [threw |-> TRUE, caught |-> FALSE, value |-> Undefined]

\* a try block whose catch block lets the exception go on
rethrow(body, handler) == body

\* try { body } catch (error) { handler }
tryCatch(body, handler) ==
    IF body.threw THEN [handler EXCEPT !.caught = TRUE] ELSE body

\* Array.prototype.find over callbacks that hit, miss or throw: the first
\* callback that does not miss decides
findOutcome(tests) ==
    LET decided == {i \in 1..Len(tests) : tests[i] # "miss"}
    IN  IF decided = {} THEN [threw |-> FALSE, index |-> 0]
        ELSE LET i == CHOOSE k \in decided : \A j \in decided : k <= j
             IN  IF tests[i] = "throw" THEN [threw |-> TRUE, index |-> 0]
                 ELSE [threw |-> FALSE, index |-> i]

\* client.id && client.id.toLowerCase() === wanted.toLowerCase(), and the
\* same on client.name: wanted is truthy when the callback runs
equalsTest(field, wanted) ==
    IF ~IsTruthy(field) THEN "miss"
    ELSE IF field.type # "string" \/ wanted.type # "string" THEN "throw"
    ELSE IF toLowerCase(field.text) = toLowerCase(wanted.text) THEN "hit"
    ELSE "miss"

\* the callback of the identifier search on one client
idTestOutcome(appt, client) ==
    IF IsNullish(client) THEN "throw"
    ELSE equalsTest(idOfValue(client), idOfValue(appt))

\* the callback of the exact name search; extractedName is a string
exactTestOutcome(extractedName, client) ==
    IF IsNullish(client) THEN "throw"
    ELSE IF ~IsTruthy(nameOfValue(client)) THEN "miss"
    ELSE IF nameOfValue(client).type # "string" THEN "throw"
    ELSE IF toLowerCase(nameOfValue(client).text) = extractedName THEN "hit"
    ELSE "miss"

\* the callback of the partial name search
partialTestOutcome(extractedName, client) ==
    IF IsNullish(client) THEN "throw"
    ELSE IF ~IsTruthy(nameOfValue(client)) THEN "miss"
    ELSE IF nameOfValue(client).type # "string" THEN "throw"
    ELSE IF \/ includes(toLowerCase(nameOfValue(client).text), extractedName)
            \/ includes(extractedName, toLowerCase(nameOfValue(client).text))
    THEN "hit"
    ELSE "miss"

\* the name searches, reached when appointment.extractedClientName is truthy
nameSearchOutcome(appt, clients) ==
    IF nameOfValue(appt).type # "string" \/ clients.type # "array" THEN Throw
    ELSE LET extractedName == trim(toLowerCase(nameOfValue(appt).text))
             exact == findOutcome([i \in 1..Len(clients.parts) |->
                         exactTestOutcome(extractedName, clients.parts[i])])
             partial == findOutcome([i \in 1..Len(clients.parts) |->
                           partialTestOutcome(extractedName, clients.parts[i])])
         IN  IF exact.threw THEN Throw
             ELSE IF exact.index # 0 THEN Return(clients.parts[exact.index])
             ELSE IF partial.threw THEN Throw
             ELSE IF partial.index # 0 THEN Return(clients.parts[partial.index])
             ELSE Return(JSNull)

\* the search of matchAppointmentToClient from the identifier step on
searchOutcome(appt, clients) ==
    IF IsNullish(appt) THEN Throw
    ELSE LET byIdFound ==
                 IF clients.type # "array" THEN [threw |-> TRUE, index |-> 0]
                 ELSE findOutcome([i \in 1..Len(clients.parts) |->
                          idTestOutcome(appt, clients.parts[i])])
         IN  IF IsTruthy(idOfValue(appt)) /\ byIdFound.threw THEN Throw
             ELSE IF IsTruthy(idOfValue(appt)) /\ byIdFound.index # 0
             THEN Return(clients.parts[byIdFound.index])
             ELSE IF IsTruthy(nameOfValue(appt)) THEN nameSearchOutcome(appt, clients)
             ELSE Return(JSNull)

\* matchAppointmentToClient on any appointment value; source tells whether
\* getAllClients is defined, throws, or returns the value clients
matchOutcome(appt, source, clients) ==
    tryCatch(IF source \in {"undefined", "throws"} THEN Return(JSNull)
             ELSE IF ~IsTruthy(clients) \/ (clients.type = "array" /\ clients.parts = <<>>)
             THEN Return(JSNull)
             ELSE searchOutcome(appt, clients),
             Return(JSNull))

\* field && other && field.toLowerCase() === other.toLowerCase(), with the
\* client's field converted first
bothEqualOutcome(apptField, clientField) ==
    IF ~IsTruthy(apptField) \/ ~IsTruthy(clientField) THEN "miss"
    ELSE IF clientField.type # "string" \/ apptField.type # "string" THEN "throw"
    ELSE IF toLowerCase(clientField.text) = toLowerCase(apptField.text) THEN "hit"
    ELSE "miss"

\* the medium step of calculateMatchConfidence
partialOutcome(apptName, clientName) ==
    IF ~IsTruthy(apptName) \/ ~IsTruthy(clientName) THEN "miss"
    ELSE IF apptName.type # "string" \/ clientName.type # "string" THEN "throw"
    ELSE IF \/ includes(toLowerCase(clientName.text), toLowerCase(apptName.text))
            \/ includes(toLowerCase(apptName.text), toLowerCase(clientName.text))
    THEN "hit"
    ELSE "miss"

\* the try block of calculateMatchConfidence; client is truthy
confidenceBody(appt, client) ==
    IF IsNullish(appt) THEN Throw
    ELSE LET sameId == bothEqualOutcome(idOfValue(appt), idOfValue(client))
             sameName == bothEqualOutcome(nameOfValue(appt), nameOfValue(client))
             partial == partialOutcome(nameOfValue(appt), nameOfValue(client))
         IN  IF sameId = "throw" THEN Throw
             ELSE IF sameId = "hit" THEN Return(Str(<<"h", "i", "g", "h">>))
             ELSE IF sameName = "throw" THEN Throw
             ELSE IF sameName = "hit" THEN Return(Str(<<"h", "i", "g", "h">>))
             ELSE IF partial = "throw" THEN Throw
             ELSE IF partial = "hit" THEN Return(Str(<<"m", "e", "d", "i", "u", "m">>))
             ELSE Return(Str(<<"l", "o", "w">>))

\* calculateMatchConfidence on any pair of values
confidenceOutcome(appt, client) ==
    IF ~IsTruthy(client) THEN Return(Str(<<"n", "o", "n", "e">>))
    ELSE tryCatch(confidenceBody(appt, client), Return(Str(<<"l", "o", "w">>)))

\* extractClientFromTitle on any value: {name, id} as an object
titleOutcome(t) ==
    tryCatch(IF t.type # "string" THEN Throw
             ELSE Return(Obj(Str(extractClientFromTitle(t.text).id),
                             Str(extractClientFromTitle(t.text).name))),
             Return(Obj(Str(<<>>), t)))

\* this.parse(data) on any value: the items of a non-empty string, and no
\* item for anything else
itemsOf(d) == IF IsTruthy(d) /\ d.type = "string" THEN parse(d.text) ELSE <<>>

\* a list of items as an array of strings
strings(items) == Arr([i \in 1..Len(items) |-> Str(items[i])])

parseOutcome(d) == tryCatch(Return(strings(itemsOf(d))), Return(Arr(<<>>)))

stringifyOutcome(v) ==
    tryCatch(IF v.type # "array" THEN Return(Str(<<>>))
             ELSE Return(Str(stringify([i \in 1..Len(v.parts) |->
                                           toStringOf(v.parts[i])]))),
             Return(Str(<<>>)))

addItemOutcome(d, newItem, allowDuplicates) ==
    tryCatch(IF ~IsTruthy(newItem) THEN Return(orEmpty(d))
             ELSE IF newItem.type # "string" THEN Throw
             ELSE IF ~allowDuplicates /\ trim(newItem.text) \in Range(itemsOf(d))
             THEN Return(d)
             ELSE Return(Str(stringify(Append(itemsOf(d), trim(newItem.text))))),
             Return(orEmpty(d)))

removeItemOutcome(d, itemToRemove) ==
    tryCatch(IF ~IsTruthy(d) \/ ~IsTruthy(itemToRemove) THEN Return(orEmpty(d))
             ELSE IF itemToRemove.type # "string" THEN Throw
             ELSE Return(Str(stringify(SelectSeq(itemsOf(d),
                             LAMBDA item : item # trim(itemToRemove.text))))),
             Return(orEmpty(d)))

updateItemOutcome(d, oldItem, newItem) ==
    tryCatch(IF ~IsTruthy(d) \/ ~IsTruthy(oldItem) \/ ~IsTruthy(newItem)
             THEN Return(orEmpty(d))
             ELSE IF oldItem.type # "string" \/ newItem.type # "string" THEN Throw
             ELSE Return(Str(stringify([i \in 1..Len(itemsOf(d)) |->
                             IF itemsOf(d)[i] = trim(oldItem.text)
                             THEN trim(newItem.text) ELSE itemsOf(d)[i]]))),
             Return(orEmpty(d)))

\* the elements of newOrder that can equal an item: its strings
stringsIn(v) ==
    LET kept == SelectSeq(v.parts, LAMBDA part : part.type = "string")
    IN  [i \in 1..Len(kept) |-> kept[i].text]

reorderItemsOutcome(d, newOrder) ==
    tryCatch(IF ~IsTruthy(d) \/ newOrder.type # "array" THEN Return(orEmpty(d))
             ELSE Return(Str(stringify(
                      SelectSeq(stringsIn(newOrder),
                                LAMBDA item : item \in Range(itemsOf(d)))
                      \o SelectSeq(itemsOf(d),
                                   LAMBDA item : item \notin Range(stringsIn(newOrder)))))),
             Return(orEmpty(d)))

containsOutcome(d, item) ==
    tryCatch(IF ~IsTruthy(d) \/ ~IsTruthy(item) THEN Return(Bool(FALSE))
             ELSE IF item.type # "string" THEN Throw
             ELSE Return(Bool(trim(item.text) \in Range(itemsOf(d)))),
             Return(Bool(FALSE)))

getCountOutcome(d) ==
    tryCatch(IF ~IsTruthy(d) THEN Return(Num(0)) ELSE Return(Num(Len(itemsOf(d)))),
             Return(Num(0)))

\* the forEach of merge over an array of any values
RECURSIVE allItemsOfValues(_)
allItemsOfValues(values) ==
    IF values = <<>> THEN <<>>
    ELSE itemsOf(Head(values)) \o allItemsOfValues(Tail(values))

mergeOutcome(v, removeDuplicates) ==
    tryCatch(IF v.type # "array" THEN Return(Str(<<>>))
             ELSE IF removeDuplicates
             THEN Return(Str(stringify(uniqueItems(allItemsOfValues(v.parts)))))
             ELSE Return(Str(stringify(allItemsOfValues(v.parts)))),
             Return(Str(<<>>)))

\* filter and map with a callback that keeps every item as it is
\* ("keep") or raises an exception ("throw") when it is called
callbackOutcome(d, callback) ==
    tryCatch(IF ~IsTruthy(d) \/ callback.type # "function" THEN Return(orEmpty(d))
             ELSE IF itemsOf(d) # <<>> /\ callback.text = <<"throw">> THEN Throw
             ELSE Return(Str(stringify(itemsOf(d)))),
             Return(orEmpty(d)))

\* the result object of validate: <<valid, itemCount>>
validateOutcome(d) ==
    tryCatch(IF ~IsTruthy(d) THEN Return(Obj(Bool(TRUE), Num(0)))
             ELSE IF d.type # "string" THEN Return(Obj(Bool(FALSE), Num(0)))
             ELSE Return(Obj(Bool(validate(d.text).valid),
                             Num(validate(d.text).itemCount))),
             Return(Obj(Bool(FALSE), Num(0))))

\* clean with an options argument that holds none of the four options
cleanOutcome(d, options) ==
    tryCatch(IF ~IsTruthy(d) THEN Return(Str(<<>>))
             ELSE IF d.type # "string" THEN Return(Str(stringify(<<>>)))
             ELSE Return(Str(clean(d.text, defaultOptions))),
             Return(orEmpty(d)))

\* argument values: strings, and values of the wrong type
TextValues == { Str(<<>>), Str(<<"A">>), Str(<<"A", "|", "B">>) }
OtherValues ==
    { Undefined, JSNull, Zero, Seven, Arr(<<>>), Arr(<<Str(<<"B">>), Str(<<"A">>), Seven>>) }
AnyValues == TextValues \cup OtherValues

\* callbacks handed to filter and map
Callbacks == { Fn("keep"), Fn("throw"), Undefined, Str(<<"A">>) }

\* appointments: absent, or with fields that are absent, a string or a number
AppointmentValues ==
    { Undefined, JSNull }
    \cup { Obj(i, n) : i \in {Undefined, Str(<<"c", "1">>), Seven},
                       n \in {Undefined, Str(<<"a", "n", "n">>), Seven} }

\* clients: null, or with fields that are absent, a string or a number
ClientValues ==
    { JSNull }
    \cup { Obj(i, n) : i \in {Undefined, Str(<<"C", "1">>), Seven},
                       n \in {Undefined, Str(<<"A", "n", "n">>), Seven} }

\* what getAllClients returns: null, a number, or a list of clients
ClientsValues ==
    { JSNull, Seven }
    \cup { Arr(l) : l \in UNION { [1..k -> ClientValues] : k \in 0..MaxClients } }

CallInit ==
    /\ called = "none"
    /\ actual = <<>>
    /\ outcome = Return(Undefined)
    /\ appointment = [extractedClientId |-> <<>>, extractedClientName |-> <<>>]
    /\ allClients = <<>>
    /\ pc = "idle"
    /\ matchedClient = Null
    /\ hasClientMatch = FALSE
    /\ matchConfidence = "none"
    /\ scoredClient = Null
    /\ data = <<>>
    /\ op = "none"
    /\ arg = <<>>
    /\ flag = FALSE
    /\ order = <<>>
    /\ result = <<>>
    /\ arg2 = <<>>
    /\ list = <<>>
    /\ opts = defaultOptions
    /\ title = <<>>
    /\ extracted = [null |-> TRUE]
    /\ clientRows = <<>>
    /\ sessionRows = <<>>
    /\ formResponse = [valid |-> FALSE]
    /\ rowsBefore = <<>>
    /\ formCalls = <<>>
    /\ formReturned = FALSE
    /\ formPc = "idle"
    /\ submitted = <<>>
    /\ lastProcessedProperty = [set |-> FALSE, value |-> 0]
    /\ handedOver = <<>>
    /\ clock = 1
    /\ runs = 0
    /\ processedCount = 0
    /\ retryPc = "idle"
    /\ attempt = 1
    /\ primaryAttempts = 0
    /\ errors = <<>>
    /\ sleeps = <<>>
    /\ fallbackOutcome = "none"
    /\ retryResult = "none"
    /\ sessionSheet = <<>>
    /\ sheetBefore = <<>>
    /\ sessionData = [sheetUp |-> FALSE]
    /\ sessionReturned = 0
    /\ sessionCalls = 0
    /\ goalsCell = <<>>
    /\ goalCall = [op |-> "none"]
    /\ goalThrew = FALSE
    /\ therapyConfig = [stored |-> FALSE]
    /\ configCall = [op |-> "none", returned |-> FALSE]

CallMatchAppointmentToClient ==
    /\ called = "none"
    /\ \E appt \in AppointmentValues, clients \in ClientsValues :
          /\ actual' = <<appt, Str(<<"value">>), clients>>
          /\ outcome' = matchOutcome(appt, "value", clients)
    /\ called' = "matchAppointmentToClient"
    /\ UNCHANGED callFrame

\* getAllClients is not defined, or throws
CallMatchWithoutClients ==
    /\ called = "none"
    /\ \E appt \in AppointmentValues, source \in {"undefined", "throws"} :
          /\ actual' = <<appt, Str(<<source>>), Undefined>>
          /\ outcome' = matchOutcome(appt, source, Undefined)
    /\ called' = "matchAppointmentToClient"
    /\ UNCHANGED callFrame

CallCalculateMatchConfidence ==
    /\ called = "none"
    /\ \E appt \in AppointmentValues, client \in ClientValues \cup {Undefined, Seven} :
          /\ actual' = <<appt, client>>
          /\ outcome' = confidenceOutcome(appt, client)
    /\ called' = "calculateMatchConfidence"
    /\ UNCHANGED callFrame

CallExtractClientFromTitle ==
    /\ called = "none"
    /\ \E t \in AnyValues \cup {Str(ScenarioTitle)} :
          /\ actual' = <<t>>
          /\ outcome' = titleOutcome(t)
    /\ called' = "extractClientFromTitle"
    /\ UNCHANGED callFrame

CallParse ==
    /\ called = "none"
    /\ \E d \in AnyValues :
          /\ actual' = <<d>>
          /\ outcome' = parseOutcome(d)
    /\ called' = "parse"
    /\ UNCHANGED callFrame

CallStringify ==
    /\ called = "none"
    /\ \E v \in AnyValues :
          /\ actual' = <<v>>
          /\ outcome' = stringifyOutcome(v)
    /\ called' = "stringify"
    /\ UNCHANGED callFrame

CallAddItem ==
    /\ called = "none"
    /\ \E d \in AnyValues, newItem \in AnyValues, allowDuplicates \in BOOLEAN :
          /\ actual' = <<d, newItem, Bool(allowDuplicates)>>
          /\ outcome' = addItemOutcome(d, newItem, allowDuplicates)
    /\ called' = "addItem"
    /\ UNCHANGED callFrame

CallRemoveItem ==
    /\ called = "none"
    /\ \E d \in AnyValues, itemToRemove \in AnyValues :
          /\ actual' = <<d, itemToRemove>>
          /\ outcome' = removeItemOutcome(d, itemToRemove)
    /\ called' = "removeItem"
    /\ UNCHANGED callFrame

CallUpdateItem ==
    /\ called = "none"
    /\ \E d \in AnyValues, oldItem \in AnyValues, newItem \in AnyValues :
          /\ actual' = <<d, oldItem, newItem>>
          /\ outcome' = updateItemOutcome(d, oldItem, newItem)
    /\ called' = "updateItem"
    /\ UNCHANGED callFrame

CallReorderItems ==
    /\ called = "none"
    /\ \E d \in AnyValues, newOrder \in AnyValues :
          /\ actual' = <<d, newOrder>>
          /\ outcome' = reorderItemsOutcome(d, newOrder)
    /\ called' = "reorderItems"
    /\ UNCHANGED callFrame

CallContains ==
    /\ called = "none"
    /\ \E d \in AnyValues, item \in AnyValues :
          /\ actual' = <<d, item>>
          /\ outcome' = containsOutcome(d, item)
    /\ called' = "contains"
    /\ UNCHANGED callFrame

CallGetCount ==
    /\ called = "none"
    /\ \E d \in AnyValues :
          /\ actual' = <<d>>
          /\ outcome' = getCountOutcome(d)
    /\ called' = "getCount"
    /\ UNCHANGED callFrame

CallMerge ==
    /\ called = "none"
    /\ \E v \in AnyValues \cup {Arr(<<Str(<<"A", "|", "B">>), JSNull, Str(<<"B">>)>>)},
          removeDuplicates \in BOOLEAN :
          /\ actual' = <<v, Bool(removeDuplicates)>>
          /\ outcome' = mergeOutcome(v, removeDuplicates)
    /\ called' = "merge"
    /\ UNCHANGED callFrame

CallFilter ==
    /\ called = "none"
    /\ \E d \in AnyValues, callback \in Callbacks :
          /\ actual' = <<d, callback>>
          /\ outcome' = callbackOutcome(d, callback)
    /\ called' = "filter"
    /\ UNCHANGED callFrame

CallMap ==
    /\ called = "none"
    /\ \E d \in AnyValues, callback \in Callbacks :
          /\ actual' = <<d, callback>>
          /\ outcome' = callbackOutcome(d, callback)
    /\ called' = "map"
    /\ UNCHANGED callFrame

CallValidate ==
    /\ called = "none"
    /\ \E d \in AnyValues :
          /\ actual' = <<d>>
          /\ outcome' = validateOutcome(d)
    /\ called' = "validate"
    /\ UNCHANGED callFrame

CallClean ==
    /\ called = "none"
    /\ \E d \in AnyValues, options \in {Undefined, JSNull, Seven} :
          /\ actual' = <<d, options>>
          /\ outcome' = cleanOutcome(d, options)
    /\ called' = "clean"
    /\ UNCHANGED callFrame

CallNext ==
    \/ CallMatchAppointmentToClient
    \/ CallMatchWithoutClients
    \/ CallCalculateMatchConfidence
    \/ CallExtractClientFromTitle
    \/ CallParse
    \/ CallStringify
    \/ CallAddItem
    \/ CallRemoveItem
    \/ CallUpdateItem
    \/ CallReorderItems
    \/ CallContains
    \/ CallGetCount
    \/ CallMerge
    \/ CallFilter
    \/ CallMap
    \/ CallValidate
    \/ CallClean

----------------------------------------------------------------------------
(* Form data persistence: FormDataPersistenceService, ClientService *)

\* the persistent fields of the configuration: one field of each update type
persistentFields ==
    <<[key |-> "CLIENT_EMAIL", column |-> "Email", updateType |-> "replace"],
      [key |-> "SESSION_NOTES", column |-> "Session_History",
       updateType |-> "append"]>>

\* ClientService.searchClients(searchTerm, true): the positions of the rows
\* whose id or name equals the trimmed search term, ignoring case
searchClients(rows, searchTerm) ==
    IF ~Truthy(searchTerm) THEN {}
    ELSE {i \in 1..Len(rows) :
            \/ toLowerCase(rows[i].ID) = trim(toLowerCase(searchTerm))
            \/ toLowerCase(rows[i].Name) = trim(toLowerCase(searchTerm))}

\* ClientService.getClientById: the position of the client's row, 0 for null
getClientById(rows, clientId) ==
    LET hits == {i \in searchClients(rows, clientId) : rows[i].ID = clientId}
    IN  IF hits = {} THEN 0 ELSE CHOOSE i \in hits : \A j \in hits : i <= j

\* ClientService.getClientByName: the position of the client's row, 0 for null
getClientByName(rows, clientName) ==
    LET hits == {i \in searchClients(rows, clientName) :
                    toLowerCase(rows[i].Name) = toLowerCase(clientName)}
    IN  IF hits = {} THEN 0 ELSE CHOOSE i \in hits : \A j \in hits : i <= j

\* ClientService.updateClient: updateData maps columns to the values to write;
\* sheetUp says whether the spreadsheet service answers during the call
updateClient(rows, clientId, updateData, sheetUp) ==
    IF ~Truthy(clientId) THEN [ok |-> FALSE, rows |-> rows]
    ELSE IF ~sheetUp \/ getClientById(rows, clientId) = 0
    THEN [ok |-> FALSE, rows |-> rows]
    ELSE LET rowNumber == getClientById(rows, clientId)
             written == [field \in DOMAIN rows[rowNumber] |->
                            IF field \in DOMAIN updateData
                            THEN updateData[field]
                            ELSE rows[rowNumber][field]]
         IN  [ok |-> TRUE, rows |-> [rows EXCEPT ![rowNumber] = written]]

\* `[${timestamp}] ${newValue}`
newEntry(timestamp, newValue) == <<"[">> \o timestamp \o <<"]", " ">> \o newValue

\* the value that skips an entry the column already holds
appendedUnlessPresent(currentValue, timestamp, newValue) ==
    addItem(currentValue, newEntry(timestamp, newValue), FALSE)

\* the value appendToClientData computes for one column
appendedValue(currentValue, timestamp, newValue) ==
    addItem(currentValue, newEntry(timestamp, newValue), TRUE)

\* FormDataPersistenceService.appendToClientData
appendToClientData(rows, clientId, appendData, timestamp, sheetUp) ==
    IF ~Truthy(clientId) \/ DOMAIN appendData = {} THEN [ok |-> TRUE, rows |-> rows]
    ELSE IF ~sheetUp \/ getClientById(rows, clientId) = 0
    THEN [ok |-> FALSE, rows |-> rows]
    ELSE LET client == rows[getClientById(rows, clientId)]
             updateData == [column \in DOMAIN appendData |->
                               appendedValue(client[column], timestamp,
                                             appendData[column])]
         IN  updateClient(rows, clientId, updateData, sheetUp)

\* FormDataPersistenceService.extractClientId: the Client_ID answer, else the
\* id of the client the Client_Name answer names, else nothing
extractClientId(response, rows) ==
    IF Truthy(response.Client_ID) THEN response.Client_ID
    ELSE IF Truthy(response.Client_Name)
            /\ getClientByName(rows, response.Client_Name) # 0
    THEN rows[getClientByName(rows, response.Client_Name)].ID
    ELSE <<>>

\* FormDataPersistenceService.extractSessionId
extractSessionId(response) == response.Session_ID

\* FormDataPersistenceService.extractFieldValue
extractFieldValue(response, fieldKey) == response[fieldKey]

\* the columns and values processFormResponse collects for one update type
collected(response, updateType) ==
    LET fields == {i \in 1..Len(persistentFields) :
                     /\ persistentFields[i].updateType = updateType
                     /\ extractFieldValue(response, persistentFields[i].key) # <<>>}
    IN  [column \in {persistentFields[i].column : i \in fields} |->
            extractFieldValue(response,
                (CHOOSE f \in Range(persistentFields) : f.column = column).key)]

\* SessionTrackingService.updateSessionStatus(sessionId, 'completed', ...)
updateSessionStatus(sessions, sessionId, status, sheetUp) ==
    LET hits == {i \in 1..Len(sessions) : sessions[i].Session_ID = sessionId}
    IN  IF ~Truthy(sessionId) \/ ~sheetUp \/ hits = {}
        THEN [ok |-> FALSE, sessions |-> sessions]
        ELSE LET i == CHOOSE k \in hits : \A j \in hits : k <= j
             IN  [ok |-> TRUE,
                  sessions |-> [sessions EXCEPT ![i].Status = status]]

\* the append step that does not look at the result of the replace step
appendAlways(updateSuccess, appendData) == DOMAIN appendData # {}

\* if (updateSuccess && Object.keys(appendData).length > 0)
shouldAppend(updateSuccess, appendData) ==
    updateSuccess /\ DOMAIN appendData # {}

\* FormDataPersistenceService.processFormResponse; service says, for each of
\* the three writes, whether the spreadsheet service answers during it
processFormResponse(response, rows, sessions, timestamp, service) ==
    LET untouched == [returned |-> FALSE, rows |-> rows, sessions |-> sessions,
                      calls |-> <<>>]
    IN
    IF ~response.valid THEN untouched
    ELSE IF ~Truthy(extractClientId(response, rows)) THEN untouched
    ELSE
    LET clientId == extractClientId(response, rows)
        sessionId == extractSessionId(response)
        updateData == collected(response, "replace")
        appendData == collected(response, "append")
        replaced == IF DOMAIN updateData # {}
                    THEN updateClient(rows, clientId, updateData, service.update)
                    ELSE [ok |-> TRUE, rows |-> rows]
        calls1 == IF DOMAIN updateData # {}
                  THEN <<[call |-> "updateClient", ok |-> replaced.ok]>>
                  ELSE <<>>
        appended == IF shouldAppend(replaced.ok, appendData)
                    THEN appendToClientData(replaced.rows, clientId, appendData,
                                            timestamp, service.append)
                    ELSE replaced
        calls2 == IF shouldAppend(replaced.ok, appendData)
                  THEN Append(calls1, [call |-> "appendToClientData",
                                       ok |-> appended.ok])
                  ELSE calls1
        updateSuccess == appended.ok
        marked == IF updateSuccess /\ Truthy(sessionId)
                  THEN updateSessionStatus(sessions, sessionId, "completed",
                                           service.session)
                  ELSE [ok |-> FALSE, sessions |-> sessions]
        calls3 == IF updateSuccess /\ Truthy(sessionId)
                  THEN Append(calls2, [call |-> "updateSessionStatus",
                                       ok |-> marked.ok])
                  ELSE calls2
    IN  [returned |-> updateSuccess, rows |-> appended.rows,
         sessions |-> marked.sessions, calls |-> calls3]

----------------------------------------------------------------------------
(* Form data persistence inputs *)

FormChars == {"a", "|", " "}

FormStringsUpTo(n) == UNION { [1..k -> FormChars] : k \in 0..n }

\* what new Date().toLocaleDateString() gives on two days
Timestamps == {<<"1">>, <<"2">>}

\* the stored Session_History values: short texts, and texts that already hold
\* an entry written by an earlier response
HistoryTexts ==
    FormStringsUpTo(MaxHistoryLen)
    \cup {newEntry(t, <<"a">>) : t \in Timestamps}

SubmittedValues == FormStringsUpTo(MaxValueLen)

ClientRow(history) ==
    [ID |-> <<"C", "1">>, Name |-> <<"J", "o">>, Email |-> <<"o">>,
     Session_History |-> history]

SessionRow == [Session_ID |-> <<"S", "1">>, Status |-> "scheduled"]

FormResponses ==
    [valid : BOOLEAN,
     Client_ID : {<<>>, <<"C", "1">>, <<"C", "9">>},
     Client_Name : {<<>>, <<"j", "o">>},
     Session_ID : {<<>>, <<"S", "1">>, <<"S", "9">>},
     CLIENT_EMAIL : {<<>>, <<"n">>},
     SESSION_NOTES : SubmittedValues]

Services == [update : BOOLEAN, append : BOOLEAN, session : BOOLEAN]

----------------------------------------------------------------------------
(* Form data persistence operations *)

FormInit ==
    /\ clientRows \in {<<>>} \cup {<<ClientRow(h)>> : h \in HistoryTexts}
    /\ sessionRows = <<SessionRow>>
    /\ formResponse = [valid |-> FALSE]
    /\ rowsBefore = <<>>
    /\ formCalls = <<>>
    /\ formReturned = FALSE
    /\ formPc = "idle"
    /\ appointment = [extractedClientId |-> <<>>, extractedClientName |-> <<>>]
    /\ allClients = <<>>
    /\ pc = "idle"
    /\ matchedClient = Null
    /\ hasClientMatch = FALSE
    /\ matchConfidence = "none"
    /\ scoredClient = Null
    /\ data = <<>>
    /\ op = "none"
    /\ arg = <<>>
    /\ flag = FALSE
    /\ order = <<>>
    /\ result = <<>>
    /\ arg2 = <<>>
    /\ list = <<>>
    /\ opts = defaultOptions
    /\ title = <<>>
    /\ extracted = [null |-> TRUE]
    /\ called = "none"
    /\ actual = <<>>
    /\ outcome = [threw |-> FALSE, caught |-> FALSE, value |-> [type |-> "undefined", text |-> <<>>, parts |-> <<>>]]
    /\ submitted = <<>>
    /\ lastProcessedProperty = [set |-> FALSE, value |-> 0]
    /\ handedOver = <<>>
    /\ clock = 1
    /\ runs = 0
    /\ processedCount = 0
    /\ retryPc = "idle"
    /\ attempt = 1
    /\ primaryAttempts = 0
    /\ errors = <<>>
    /\ sleeps = <<>>
    /\ fallbackOutcome = "none"
    /\ retryResult = "none"
    /\ sessionSheet = <<>>
    /\ sheetBefore = <<>>
    /\ sessionData = [sheetUp |-> FALSE]
    /\ sessionReturned = 0
    /\ sessionCalls = 0
    /\ goalsCell = <<>>
    /\ goalCall = [op |-> "none"]
    /\ goalThrew = FALSE
    /\ therapyConfig = [stored |-> FALSE]
    /\ configCall = [op |-> "none", returned |-> FALSE]

ProcessFormResponse ==
    /\ formPc = "idle"
    /\ \E response \in FormResponses, timestamp \in Timestamps,
          service \in Services :
         \E done \in {processFormResponse(response, clientRows, sessionRows,
                                          timestamp, service)} :
             /\ formResponse' = [response |-> response, timestamp |-> timestamp]
             /\ rowsBefore' = clientRows
             /\ clientRows' = done.rows
             /\ sessionRows' = done.sessions
             /\ formCalls' = done.calls
             /\ formReturned' = done.returned
    /\ formPc' = "processed"
    /\ UNCHANGED formFrame

FormNext ==
    \/ ProcessFormResponse

----------------------------------------------------------------------------
(* Form submission trigger: processNewFormResponses *)

\* lastProcessedTimestamp ? new Date(lastProcessedTimestamp) : new Date(0);
\* toISOString and new Date keep the millisecond the timestamp holds
lastProcessedOf(property) == IF property.set THEN property.value ELSE 0

\* the responses the loop hands to processFormResponse among the first
\* reached ones: those stamped after lastProcessed
newResponses(responses, lastProcessed, reached) ==
    {i \in 1..reached : responses[i] > lastProcessed}

\* latestTimestamp after the loop went through all responses
latestTimestamp(responses, lastProcessed) ==
    LET stamps == {responses[i] : i \in 1..Len(responses)} \cup {lastProcessed}
    IN  CHOOSE t \in stamps : \A u \in stamps : t >= u

----------------------------------------------------------------------------
(* Form submission trigger operations *)

TriggerInit ==
    /\ submitted = <<>>
    /\ lastProcessedProperty = [set |-> FALSE, value |-> 0]
    /\ handedOver = <<>>
    /\ clock = 1
    /\ runs = 0
    /\ processedCount = 0
    /\ appointment = [extractedClientId |-> <<>>, extractedClientName |-> <<>>]
    /\ allClients = <<>>
    /\ pc = "idle"
    /\ matchedClient = Null
    /\ hasClientMatch = FALSE
    /\ matchConfidence = "none"
    /\ scoredClient = Null
    /\ data = <<>>
    /\ op = "none"
    /\ arg = <<>>
    /\ flag = FALSE
    /\ order = <<>>
    /\ result = <<>>
    /\ arg2 = <<>>
    /\ list = <<>>
    /\ opts = defaultOptions
    /\ title = <<>>
    /\ extracted = [null |-> TRUE]
    /\ called = "none"
    /\ actual = <<>>
    /\ outcome = [threw |-> FALSE, caught |-> FALSE, value |-> [type |-> "undefined", text |-> <<>>, parts |-> <<>>]]
    /\ clientRows = <<>>
    /\ sessionRows = <<>>
    /\ formResponse = [valid |-> FALSE]
    /\ rowsBefore = <<>>
    /\ formCalls = <<>>
    /\ formReturned = FALSE
    /\ formPc = "idle"
    /\ retryPc = "idle"
    /\ attempt = 1
    /\ primaryAttempts = 0
    /\ errors = <<>>
    /\ sleeps = <<>>
    /\ fallbackOutcome = "none"
    /\ retryResult = "none"
    /\ sessionSheet = <<>>
    /\ sheetBefore = <<>>
    /\ sessionData = [sheetUp |-> FALSE]
    /\ sessionReturned = 0
    /\ sessionCalls = 0
    /\ goalsCell = <<>>
    /\ goalCall = [op |-> "none"]
    /\ goalThrew = FALSE
    /\ therapyConfig = [stored |-> FALSE]
    /\ configCall = [op |-> "none", returned |-> FALSE]

\* a respondent submits the form
SubmitResponse ==
    /\ Len(submitted) < MaxResponses
    /\ submitted' = Append(submitted, clock)
    /\ handedOver' = Append(handedOver, 0)
    /\ UNCHANGED <<lastProcessedProperty, clock, runs, processedCount, triggerFrame>>

\* time passes
Tick ==
    /\ clock < MaxTime
    /\ clock' = clock + 1
    /\ UNCHANGED <<submitted, lastProcessedProperty, handedOver, runs,
                   processedCount, triggerFrame>>

\* one run of processNewFormResponses(formId), from its first line to its
\* return.  reached is the number of responses the loop went through before a
\* service call threw (all of them when none did); stored says whether
\* setProperty answered; succeeded are the responses for which
\* processFormResponse returned true.  An exception ends the run in the catch
\* block, which returns 0.
ProcessNewFormResponses ==
    /\ runs < MaxRuns
    /\ \E reached \in 0..Len(submitted), stored \in BOOLEAN :
         LET lastProcessed == lastProcessedOf(lastProcessedProperty)
             handed == newResponses(submitted, lastProcessed, reached)
             latest == latestTimestamp(submitted, lastProcessed)
             completed == reached = Len(submitted)
             threw == ~completed \/ (latest > lastProcessed /\ ~stored)
         IN  /\ handedOver' = [i \in 1..Len(submitted) |->
                                  IF i \in handed THEN handedOver[i] + 1
                                  ELSE handedOver[i]]
             /\ lastProcessedProperty' =
                    IF completed /\ latest > lastProcessed /\ stored
                    THEN [set |-> TRUE, value |-> latest]
                    ELSE lastProcessedProperty
             /\ \E succeeded \in SUBSET handed :
                    processedCount' = IF threw THEN 0 ELSE Cardinality(succeeded)
    /\ runs' = runs + 1
    /\ UNCHANGED <<submitted, clock, triggerFrame>>

TriggerNext ==
    \/ SubmitResponse
    \/ Tick
    \/ ProcessNewFormResponses

----------------------------------------------------------------------------
(* Calendar access with retries: getAppointmentsInRangeWithRetry *)

\* the messages of the errors getAppointmentsInRange can throw
PermissionMessage == <<"N", "o", " ", "p", "e", "r", "m", "i", "s", "s", "i", "o", "n", " ", "f", "o", "r", " ", "c", "a", "l", "e", "n", "d", "a", "r">>
AccessDeniedMessage == <<"A", "c", "c", "e", "s", "s", " ", "d", "e", "n", "i", "e", "d">>
CalendarNotFoundMessage == <<"C", "a", "l", "e", "n", "d", "a", "r", " ", "n", "o", "t", " ", "f", "o", "u", "n", "d">>
InvalidCalendarMessage == <<"I", "n", "v", "a", "l", "i", "d", " ", "c", "a", "l", "e", "n", "d", "a", "r", " ", "i", "d">>
ServiceErrorMessage == <<"S", "e", "r", "v", "i", "c", "e", " ", "e", "r", "r", "o", "r">>
TimeoutMessage == <<"T", "i", "m", "e", "o", "u", "t">>

ErrorMessages ==
    {PermissionMessage, AccessDeniedMessage, CalendarNotFoundMessage,
     InvalidCalendarMessage, ServiceErrorMessage, TimeoutMessage}

\* the check that lets every error be retried
retryEveryError(message) == FALSE

\* isNonRetryableError(error), on the error's message
isNonRetryableError(message) ==
    LET errorMessage == toLowerCase(message)
    IN  \/ includes(errorMessage, <<"p", "e", "r", "m", "i", "s", "s", "i", "o", "n">>)
        \/ includes(errorMessage, <<"a", "c", "c", "e", "s", "s", " ", "d", "e", "n", "i", "e", "d">>)
        \/ includes(errorMessage, <<"c", "a", "l", "e", "n", "d", "a", "r", " ", "n", "o", "t", " ", "f", "o", "u", "n", "d">>)
        \/ includes(errorMessage, <<"i", "n", "v", "a", "l", "i", "d", " ", "c", "a", "l", "e", "n", "d", "a", "r">>)

----------------------------------------------------------------------------
(* Calendar access operations *)

RetryInit ==
    /\ retryPc = "idle"
    /\ attempt = 1
    /\ primaryAttempts = 0
    /\ errors = <<>>
    /\ sleeps = <<>>
    /\ fallbackOutcome = "none"
    /\ retryResult = "none"
    /\ appointment = [extractedClientId |-> <<>>, extractedClientName |-> <<>>]
    /\ allClients = <<>>
    /\ pc = "idle"
    /\ matchedClient = Null
    /\ hasClientMatch = FALSE
    /\ matchConfidence = "none"
    /\ scoredClient = Null
    /\ data = <<>>
    /\ op = "none"
    /\ arg = <<>>
    /\ flag = FALSE
    /\ order = <<>>
    /\ result = <<>>
    /\ arg2 = <<>>
    /\ list = <<>>
    /\ opts = defaultOptions
    /\ title = <<>>
    /\ extracted = [null |-> TRUE]
    /\ called = "none"
    /\ actual = <<>>
    /\ outcome = [threw |-> FALSE, caught |-> FALSE, value |-> [type |-> "undefined", text |-> <<>>, parts |-> <<>>]]
    /\ clientRows = <<>>
    /\ sessionRows = <<>>
    /\ formResponse = [valid |-> FALSE]
    /\ rowsBefore = <<>>
    /\ formCalls = <<>>
    /\ formReturned = FALSE
    /\ formPc = "idle"
    /\ submitted = <<>>
    /\ lastProcessedProperty = [set |-> FALSE, value |-> 0]
    /\ handedOver = <<>>
    /\ clock = 1
    /\ runs = 0
    /\ processedCount = 0
    /\ sessionSheet = <<>>
    /\ sheetBefore = <<>>
    /\ sessionData = [sheetUp |-> FALSE]
    /\ sessionReturned = 0
    /\ sessionCalls = 0
    /\ goalsCell = <<>>
    /\ goalCall = [op |-> "none"]
    /\ goalThrew = FALSE
    /\ therapyConfig = [stored |-> FALSE]
    /\ configCall = [op |-> "none", returned |-> FALSE]

\* the call enters the loop: let attempt = 1
GetAppointmentsInRangeWithRetry ==
    /\ retryPc = "idle"
    /\ retryPc' = "attempt"
    /\ UNCHANGED <<attempt, primaryAttempts, errors, sleeps, fallbackOutcome,
                   retryResult, retryFrame>>

\* one pass of the loop in which getAppointmentsInRange returns
PrimaryAttemptSucceeds ==
    /\ retryPc = "attempt"
    /\ attempt <= MAX_RETRIES
    /\ primaryAttempts' = primaryAttempts + 1
    /\ retryResult' = "primary"
    /\ retryPc' = "returned"
    /\ UNCHANGED <<attempt, errors, sleeps, fallbackOutcome, retryFrame>>

\* one pass of the loop in which getAppointmentsInRange throws: the catch
\* block, with its break or its wait, and attempt++
PrimaryAttemptFails ==
    /\ retryPc = "attempt"
    /\ attempt <= MAX_RETRIES
    /\ \E message \in ErrorMessages :
         /\ errors' = Append(errors, message)
         /\ primaryAttempts' = primaryAttempts + 1
         /\ IF isNonRetryableError(message)
            THEN /\ retryPc' = "fallback"
                 /\ UNCHANGED <<attempt, sleeps>>
            ELSE /\ sleeps' = IF attempt < MAX_RETRIES
                              THEN Append(sleeps, [after |-> attempt,
                                                   ms |-> RETRY_DELAY_MS * attempt])
                              ELSE sleeps
                 /\ attempt' = attempt + 1
                 /\ retryPc' = IF attempt + 1 <= MAX_RETRIES
                               THEN "attempt" ELSE "fallback"
    /\ UNCHANGED <<fallbackOutcome, retryResult, retryFrame>>

\* getAppointmentsFallback returns
FallbackSucceeds ==
    /\ retryPc = "fallback"
    /\ fallbackOutcome' = "ok"
    /\ retryResult' = "fallback"
    /\ retryPc' = "returned"
    /\ UNCHANGED <<attempt, primaryAttempts, errors, sleeps, retryFrame>>

\* getAppointmentsFallback throws: 'Unable to access calendar data ...'
FallbackFails ==
    /\ retryPc = "fallback"
    /\ fallbackOutcome' = "failed"
    /\ retryResult' = "error"
    /\ retryPc' = "raised"
    /\ UNCHANGED <<attempt, primaryAttempts, errors, sleeps, retryFrame>>

RetryNext ==
    \/ GetAppointmentsInRangeWithRetry
    \/ PrimaryAttemptSucceeds
    \/ PrimaryAttemptFails
    \/ FallbackSucceeds
    \/ FallbackFails

----------------------------------------------------------------------------
(* Session records: SessionTrackingService.createOrUpdateSession *)

\* a sessionDate: nothing, a value that is no date, or a day and an hour
NoDate == [kind |-> "none", day |-> 0, hour |-> 0]

InvalidDate == [kind |-> "invalid", day |-> 0, hour |-> 0]

DateAt(day, hour) == [kind |-> "date", day |-> day, hour |-> hour]

\* formatDateForComparison: '' for nothing and for an invalid date, else the
\* year, month and day of the date, without its time
formatDateForComparison(date) ==
    IF date.kind # "date" THEN <<>> ELSE <<date.day>>

\* the row test that looks at the client only
sameClient(row, sessionDate, clientId) == row.Client_ID = clientId

\* rowDateStr === sessionDateStr && rowClientId === String(clientId)
sameKey(row, sessionDate, clientId) ==
    /\ formatDateForComparison(row.Date) = formatDateForComparison(sessionDate)
    /\ row.Client_ID = clientId

\* the loop that looks for the session's row: the first match, 0 for none
existingRowIndex(rows, sessionDate, clientId) ==
    LET hits == {i \in 1..Len(rows) : sameKey(rows[i], sessionDate, clientId)}
    IN  IF hits = {} THEN 0 ELSE CHOOSE i \in hits : \A j \in hits : i <= j

\* createOrUpdateSession(sessionData); generated is what generateSessionId
\* gives, now what new Date() gives, sheetUp whether getSessionsSheet answers
createOrUpdateSession(rows, session, generated, now) ==
    IF session.sessionDate.kind = "none" \/ ~Truthy(session.clientId) \/ ~session.sheetUp
    THEN [returned |-> 0, rows |-> rows]
    ELSE LET existing == existingRowIndex(rows, session.sessionDate, session.clientId)
             sessionId == IF existing > 0 THEN rows[existing].Session_ID
                          ELSE generated
             rowData == [Session_ID |-> sessionId,
                         Date |-> session.sessionDate,
                         Client_ID |-> session.clientId,
                         Status |-> session.status,
                         Created_Date |-> IF existing > 0
                                          THEN rows[existing].Created_Date
                                          ELSE now,
                         Last_Updated |-> now]
         IN  [returned |-> sessionId,
              rows |-> IF existing > 0
                       THEN [rows EXCEPT ![existing] = rowData]
                       ELSE Append(rows, rowData)]

----------------------------------------------------------------------------
(* Session record inputs *)

SessionDates ==
    {NoDate, InvalidDate, DateAt(1, 9), DateAt(1, 15), DateAt(2, 9)}

SessionClientIds == {<<>>, <<"C", "1">>, <<"C", "2">>}

\* S-<date>-<time>-<random number>: two calls can get the same id
SessionIds == {1, 2}

\* a session stored before the first call
StoredSession ==
    [Session_ID |-> 1, Date |-> DateAt(1, 9), Client_ID |-> <<"C", "1">>,
     Status |-> "completed", Created_Date |-> 0, Last_Updated |-> 0]

SessionDataValues ==
    [sessionDate : SessionDates, clientId : SessionClientIds,
     status : {"in_progress", "completed"}, sheetUp : BOOLEAN]

----------------------------------------------------------------------------
(* Session record operations *)

SessionInit ==
    /\ sessionSheet \in {<<>>, <<StoredSession>>}
    /\ sheetBefore = <<>>
    /\ sessionData = [sheetUp |-> FALSE]
    /\ sessionReturned = 0
    /\ sessionCalls = 0
    /\ appointment = [extractedClientId |-> <<>>, extractedClientName |-> <<>>]
    /\ allClients = <<>>
    /\ pc = "idle"
    /\ matchedClient = Null
    /\ hasClientMatch = FALSE
    /\ matchConfidence = "none"
    /\ scoredClient = Null
    /\ data = <<>>
    /\ op = "none"
    /\ arg = <<>>
    /\ flag = FALSE
    /\ order = <<>>
    /\ result = <<>>
    /\ arg2 = <<>>
    /\ list = <<>>
    /\ opts = defaultOptions
    /\ title = <<>>
    /\ extracted = [null |-> TRUE]
    /\ called = "none"
    /\ actual = <<>>
    /\ outcome = [threw |-> FALSE, caught |-> FALSE, value |-> [type |-> "undefined", text |-> <<>>, parts |-> <<>>]]
    /\ clientRows = <<>>
    /\ sessionRows = <<>>
    /\ formResponse = [valid |-> FALSE]
    /\ rowsBefore = <<>>
    /\ formCalls = <<>>
    /\ formReturned = FALSE
    /\ formPc = "idle"
    /\ submitted = <<>>
    /\ lastProcessedProperty = [set |-> FALSE, value |-> 0]
    /\ handedOver = <<>>
    /\ clock = 1
    /\ runs = 0
    /\ processedCount = 0
    /\ retryPc = "idle"
    /\ attempt = 1
    /\ primaryAttempts = 0
    /\ errors = <<>>
    /\ sleeps = <<>>
    /\ fallbackOutcome = "none"
    /\ retryResult = "none"
    /\ goalsCell = <<>>
    /\ goalCall = [op |-> "none"]
    /\ goalThrew = FALSE
    /\ therapyConfig = [stored |-> FALSE]
    /\ configCall = [op |-> "none", returned |-> FALSE]

CreateOrUpdateSession ==
    /\ sessionCalls < MaxSessionCalls
    /\ \E session \in SessionDataValues, generated \in SessionIds :
         \E done \in {createOrUpdateSession(sessionSheet, session, generated,
                                            sessionCalls + 1)} :
             /\ sessionData' = session
             /\ sheetBefore' = sessionSheet
             /\ sessionSheet' = done.rows
             /\ sessionReturned' = done.returned
    /\ sessionCalls' = sessionCalls + 1
    /\ UNCHANGED sessionFrame

SessionNext ==
    \/ CreateOrUpdateSession

----------------------------------------------------------------------------
(* Goal management: GoalManagementService *)

\* getGoals and setGoals are not part of the sources at hand; the goals of a
\* client are a DelimitedList in the Goals column, read with parse and written
\* with stringify
getGoals(cell) == parse(cell)

setGoals(goals) == stringify(goals)

\* currentGoals.some(goal => goal.toLowerCase() === text.toLowerCase())
someEqualIgnoringCase(goals, text) ==
    \E i \in 1..Len(goals) : toLowerCase(goals[i]) = toLowerCase(text)

\* what a goal operation gives back: whether it threw, and the Goals column
Raised(cell) == [threw |-> TRUE, cell |-> cell]

Stored(goals) == [threw |-> FALSE, cell |-> setGoals(goals)]

\* GoalManagementService.addGoal
addGoal(cell, goalText) ==
    IF ~Truthy(goalText) \/ trim(goalText) = <<>> THEN Raised(cell)
    ELSE IF someEqualIgnoringCase(getGoals(cell), trim(goalText))
    THEN Raised(cell)
    ELSE Stored(Append(getGoals(cell), trim(goalText)))

\* GoalManagementService.removeGoal
removeGoal(cell, goalText) ==
    LET currentGoals == getGoals(cell)
        updatedGoals == SelectSeq(currentGoals, LAMBDA goal : goal # goalText)
    IN  IF Len(updatedGoals) = Len(currentGoals) THEN Raised(cell)
        ELSE Stored(updatedGoals)

\* GoalManagementService.updateGoal
updateGoal(cell, oldGoalText, newGoalText) ==
    LET currentGoals == getGoals(cell)
        found == {i \in 1..Len(currentGoals) : currentGoals[i] = oldGoalText}
    IN  IF ~Truthy(newGoalText) \/ trim(newGoalText) = <<>> THEN Raised(cell)
        ELSE IF found = {} THEN Raised(cell)
        ELSE LET goalIndex == CHOOSE i \in found : \A j \in found : i <= j
                 otherGoals == SubSeq(currentGoals, 1, goalIndex - 1)
                               \o SubSeq(currentGoals, goalIndex + 1,
                                         Len(currentGoals))
             IN  IF someEqualIgnoringCase(otherGoals, trim(newGoalText))
                 THEN Raised(cell)
                 ELSE Stored([currentGoals EXCEPT
                                 ![goalIndex] = trim(newGoalText)])

\* GoalManagementService.reorderGoals
reorderGoals(cell, reorderedGoals) ==
    LET currentGoals == getGoals(cell)
        currentSet == Range(currentGoals)
        reorderedSet == Range(reorderedGoals)
    IN  IF Len(reorderedGoals) # Len(currentGoals) THEN Raised(cell)
        ELSE IF Cardinality(currentSet) # Cardinality(reorderedSet)
                \/ ~(\A goal \in currentSet : goal \in reorderedSet)
        THEN Raised(cell)
        ELSE Stored(reorderedGoals)

\* GoalManagementService.bulkUpdateGoals
bulkUpdateGoals(cell, newGoals) ==
    LET kept == SelectSeq(newGoals,
                          LAMBDA goal : Truthy(goal) /\ trim(goal) # <<>>)
        trimmed == [i \in 1..Len(kept) |-> trim(kept[i])]
    IN  Stored(uniqueItems(trimmed))

----------------------------------------------------------------------------
(* Goal management inputs *)

\* the goal texts a caller hands over
GoalTexts ==
    {<<>>, <<" ">>, <<" ", "a">>, <<"A">>, <<"b">>}

\* the goals a Goals column can hold
StoredGoals == {<<"a">>, <<"A">>, <<"b">>}

GoalLists(items, n) == UNION { [1..k -> items] : k \in 0..n }

\* the orders handed to reorderGoals: the goals of the column and one other,
\* in lists as long as the column's list or one shorter
GoalOrders(cell) ==
    LET n == Len(getGoals(cell))
    IN  [1..n -> Range(getGoals(cell)) \cup {<<"b">>}]
        \cup (IF n > 0 THEN {SubSeq(getGoals(cell), 1, n - 1)} ELSE {})

DistinctIgnoringCase(goals) ==
    \A i, j \in 1..Len(goals) :
        toLowerCase(goals[i]) = toLowerCase(goals[j]) => i = j

----------------------------------------------------------------------------
(* Goal management operations *)

\* the Goals column holds what earlier edits and form responses left in it:
\* appendToClientData adds to it with allowDuplicates = true, so that it can
\* hold a goal twice
GoalInit ==
    /\ goalsCell \in {setGoals(goals) : goals \in GoalLists(StoredGoals, MaxGoals)}
    /\ goalCall = [op |-> "none"]
    /\ goalThrew = FALSE
    /\ appointment = [extractedClientId |-> <<>>, extractedClientName |-> <<>>]
    /\ allClients = <<>>
    /\ pc = "idle"
    /\ matchedClient = Null
    /\ hasClientMatch = FALSE
    /\ matchConfidence = "none"
    /\ scoredClient = Null
    /\ data = <<>>
    /\ op = "none"
    /\ arg = <<>>
    /\ flag = FALSE
    /\ order = <<>>
    /\ result = <<>>
    /\ arg2 = <<>>
    /\ list = <<>>
    /\ opts = defaultOptions
    /\ title = <<>>
    /\ extracted = [null |-> TRUE]
    /\ called = "none"
    /\ actual = <<>>
    /\ outcome = [threw |-> FALSE, caught |-> FALSE, value |-> [type |-> "undefined", text |-> <<>>, parts |-> <<>>]]
    /\ clientRows = <<>>
    /\ sessionRows = <<>>
    /\ formResponse = [valid |-> FALSE]
    /\ rowsBefore = <<>>
    /\ formCalls = <<>>
    /\ formReturned = FALSE
    /\ formPc = "idle"
    /\ submitted = <<>>
    /\ lastProcessedProperty = [set |-> FALSE, value |-> 0]
    /\ handedOver = <<>>
    /\ clock = 1
    /\ runs = 0
    /\ processedCount = 0
    /\ retryPc = "idle"
    /\ attempt = 1
    /\ primaryAttempts = 0
    /\ errors = <<>>
    /\ sleeps = <<>>
    /\ fallbackOutcome = "none"
    /\ retryResult = "none"
    /\ sessionSheet = <<>>
    /\ sheetBefore = <<>>
    /\ sessionData = [sheetUp |-> FALSE]
    /\ sessionReturned = 0
    /\ sessionCalls = 0
    /\ therapyConfig = [stored |-> FALSE]
    /\ configCall = [op |-> "none", returned |-> FALSE]

AddGoal ==
    /\ Len(getGoals(goalsCell)) < MaxGoals
    /\ \E goalText \in GoalTexts :
         \E done \in {addGoal(goalsCell, goalText)} :
             /\ goalCall' = [op |-> "addGoal", goalText |-> goalText]
             /\ goalsCell' = done.cell
             /\ goalThrew' = done.threw
    /\ UNCHANGED goalFrame

RemoveGoal ==
    /\ \E goalText \in GoalTexts :
         \E done \in {removeGoal(goalsCell, goalText)} :
             /\ goalCall' = [op |-> "removeGoal", goalText |-> goalText]
             /\ goalsCell' = done.cell
             /\ goalThrew' = done.threw
    /\ UNCHANGED goalFrame

UpdateGoal ==
    /\ Len(getGoals(goalsCell)) < MaxGoals
    /\ \E oldGoalText \in GoalTexts, newGoalText \in GoalTexts :
         \E done \in {updateGoal(goalsCell, oldGoalText, newGoalText)} :
             /\ goalCall' = [op |-> "updateGoal", oldGoalText |-> oldGoalText,
                             newGoalText |-> newGoalText]
             /\ goalsCell' = done.cell
             /\ goalThrew' = done.threw
    /\ UNCHANGED goalFrame

ReorderGoals ==
    /\ Len(getGoals(goalsCell)) <= MaxGoals
    /\ \E reorderedGoals \in GoalOrders(goalsCell) :
         \E done \in {reorderGoals(goalsCell, reorderedGoals)} :
             /\ goalCall' = [op |-> "reorderGoals",
                             reorderedGoals |-> reorderedGoals]
             /\ goalsCell' = done.cell
             /\ goalThrew' = done.threw
    /\ UNCHANGED goalFrame

\* completeGoal: removeGoal, then the goal is archived in another sheet
CompleteGoal ==
    /\ \E goalText \in GoalTexts :
         \E done \in {removeGoal(goalsCell, goalText)} :
             /\ goalCall' = [op |-> "completeGoal", goalText |-> goalText]
             /\ goalsCell' = done.cell
             /\ goalThrew' = done.threw
    /\ UNCHANGED goalFrame

BulkUpdateGoals ==
    /\ \E newGoals \in GoalLists(GoalTexts, MaxBulkGoals) :
         \E done \in {bulkUpdateGoals(goalsCell, newGoals)} :
             /\ goalCall' = [op |-> "bulkUpdateGoals", newGoals |-> newGoals]
             /\ goalsCell' = done.cell
             /\ goalThrew' = done.threw
    /\ UNCHANGED goalFrame

GoalNext ==
    \/ AddGoal
    \/ RemoveGoal
    \/ UpdateGoal
    \/ ReorderGoals
    \/ CompleteGoal
    \/ BulkUpdateGoals

----------------------------------------------------------------------------
(* Configuration: ConfigurationService *)

\* a section of the configuration: a mapping, or undefined when the stored
\* object has no such property
Section(entries) == [defined |-> TRUE, entries |-> entries]

EmptyMapping == [key \in {} |-> ""]

UndefinedSection == [defined |-> FALSE, entries |-> EmptyMapping]

DEFAULT_FIELD_MAPPINGS == [key \in {"Client_Name"} |-> "entry.1"]

DEFAULT_PERSISTENT_FIELDS == [key \in {"CLIENT_EMAIL"} |-> "replace"]

DEFAULT_SPREADSHEET_CONFIG == [key \in {"CLIENTS_SHEET"} |-> "Clients"]

\* getConfiguration() when nothing is stored: null
NoConfiguration ==
    [stored |-> FALSE, fieldMappings |-> UndefinedSection,
     persistentFields |-> UndefinedSection,
     spreadsheetConfig |-> UndefinedSection]

\* this.getConfiguration() || {}
orEmptyObject(config) == [config EXCEPT !.stored = TRUE]

\* { ...section, ...newEntries }: spreading undefined adds nothing
spread(section, newEntries) ==
    Section([key \in DOMAIN section.entries \cup DOMAIN newEntries |->
                IF key \in DOMAIN newEntries THEN newEntries[key]
                ELSE section.entries[key]])

\* config ? config.fieldMappings : this.DEFAULT_FIELD_MAPPINGS
getFieldMappings(config) ==
    IF config.stored THEN config.fieldMappings
    ELSE Section(DEFAULT_FIELD_MAPPINGS)

getPersistentFields(config) ==
    IF config.stored THEN config.persistentFields
    ELSE Section(DEFAULT_PERSISTENT_FIELDS)

getSpreadsheetConfig(config) ==
    IF config.stored THEN config.spreadsheetConfig
    ELSE Section(DEFAULT_SPREADSHEET_CONFIG)

updateFieldMappings(config, newMappings) ==
    [orEmptyObject(config) EXCEPT
        !.fieldMappings = spread(config.fieldMappings, newMappings)]

updatePersistentFields(config, newFields) ==
    [orEmptyObject(config) EXCEPT
        !.persistentFields = spread(config.persistentFields, newFields)]

updateSpreadsheetConfig(config, newConfig) ==
    [orEmptyObject(config) EXCEPT
        !.spreadsheetConfig = spread(config.spreadsheetConfig, newConfig)]

\* the configuration of initializeConfiguration and resetConfiguration
defaultConfig ==
    [stored |-> TRUE, fieldMappings |-> Section(DEFAULT_FIELD_MAPPINGS),
     persistentFields |-> Section(DEFAULT_PERSISTENT_FIELDS),
     spreadsheetConfig |-> Section(DEFAULT_SPREADSHEET_CONFIG)]

\* initializeConfiguration: the defaults when nothing, or an object without
\* keys, is stored
initializeConfiguration(config) ==
    IF ~config.stored
       \/ (/\ ~config.fieldMappings.defined
           /\ ~config.persistentFields.defined
           /\ ~config.spreadsheetConfig.defined)
    THEN defaultConfig
    ELSE config

\* importConfiguration: refused unless the three sections are there
importAccepted(configData) ==
    /\ configData.fieldMappings.defined
    /\ configData.persistentFields.defined
    /\ configData.spreadsheetConfig.defined

importConfiguration(config, configData) ==
    IF importAccepted(configData) THEN [configData EXCEPT !.stored = TRUE]
    ELSE config

----------------------------------------------------------------------------
(* Configuration inputs *)

ConfigKeys == {"Client_Name", "CLIENT_EMAIL"}

ConfigValues == {"entry.1", "entry.2"}

Mappings == UNION { [keys -> ConfigValues] : keys \in SUBSET ConfigKeys }

ImportSections == {UndefinedSection, Section(EmptyMapping),
                   Section([key \in {"Client_Name"} |-> "entry.2"])}

ImportData ==
    [stored : {FALSE}, fieldMappings : ImportSections,
     persistentFields : ImportSections, spreadsheetConfig : ImportSections]

----------------------------------------------------------------------------
(* Configuration operations *)

ConfigInit ==
    /\ therapyConfig = NoConfiguration
    /\ configCall = [op |-> "none", returned |-> FALSE]
    /\ appointment = [extractedClientId |-> <<>>, extractedClientName |-> <<>>]
    /\ allClients = <<>>
    /\ pc = "idle"
    /\ matchedClient = Null
    /\ hasClientMatch = FALSE
    /\ matchConfidence = "none"
    /\ scoredClient = Null
    /\ data = <<>>
    /\ op = "none"
    /\ arg = <<>>
    /\ flag = FALSE
    /\ order = <<>>
    /\ result = <<>>
    /\ arg2 = <<>>
    /\ list = <<>>
    /\ opts = defaultOptions
    /\ title = <<>>
    /\ extracted = [null |-> TRUE]
    /\ called = "none"
    /\ actual = <<>>
    /\ outcome = [threw |-> FALSE, caught |-> FALSE, value |-> [type |-> "undefined", text |-> <<>>, parts |-> <<>>]]
    /\ clientRows = <<>>
    /\ sessionRows = <<>>
    /\ formResponse = [valid |-> FALSE]
    /\ rowsBefore = <<>>
    /\ formCalls = <<>>
    /\ formReturned = FALSE
    /\ formPc = "idle"
    /\ submitted = <<>>
    /\ lastProcessedProperty = [set |-> FALSE, value |-> 0]
    /\ handedOver = <<>>
    /\ clock = 1
    /\ runs = 0
    /\ processedCount = 0
    /\ retryPc = "idle"
    /\ attempt = 1
    /\ primaryAttempts = 0
    /\ errors = <<>>
    /\ sleeps = <<>>
    /\ fallbackOutcome = "none"
    /\ retryResult = "none"
    /\ sessionSheet = <<>>
    /\ sheetBefore = <<>>
    /\ sessionData = [sheetUp |-> FALSE]
    /\ sessionReturned = 0
    /\ sessionCalls = 0
    /\ goalsCell = <<>>
    /\ goalCall = [op |-> "none"]
    /\ goalThrew = FALSE

InitializeConfiguration ==
    /\ therapyConfig' = initializeConfiguration(therapyConfig)
    /\ configCall' = [op |-> "initializeConfiguration", returned |-> TRUE]
    /\ UNCHANGED configFrame

UpdateFieldMappings ==
    /\ \E newMappings \in Mappings :
          therapyConfig' = updateFieldMappings(therapyConfig, newMappings)
    /\ configCall' = [op |-> "updateFieldMappings", returned |-> TRUE]
    /\ UNCHANGED configFrame

UpdatePersistentFields ==
    /\ \E newFields \in Mappings :
          therapyConfig' = updatePersistentFields(therapyConfig, newFields)
    /\ configCall' = [op |-> "updatePersistentFields", returned |-> TRUE]
    /\ UNCHANGED configFrame

UpdateSpreadsheetConfig ==
    /\ \E newConfig \in Mappings :
          therapyConfig' = updateSpreadsheetConfig(therapyConfig, newConfig)
    /\ configCall' = [op |-> "updateSpreadsheetConfig", returned |-> TRUE]
    /\ UNCHANGED configFrame

ImportConfiguration ==
    /\ \E configData \in ImportData :
          /\ therapyConfig' = importConfiguration(therapyConfig, configData)
          /\ configCall' = [op |-> "importConfiguration",
                            returned |-> importAccepted(configData)]
    /\ UNCHANGED configFrame

ResetConfiguration ==
    /\ therapyConfig' = defaultConfig
    /\ configCall' = [op |-> "resetConfiguration", returned |-> TRUE]
    /\ UNCHANGED configFrame

ConfigNext ==
    \/ InitializeConfiguration
    \/ UpdateFieldMappings
    \/ UpdatePersistentFields
    \/ UpdateSpreadsheetConfig
    \/ ImportConfiguration
    \/ ResetConfiguration

----------------------------------------------------------------------------
(* Specifications *)

MatcherSpec == MatchInit /\ [][MatchNext]_vars

StoreSpec == StoreInit /\ [][StoreNext]_vars

ListSpec == ListInit /\ [][ListNext]_vars

TitleSpec == TitleInit /\ [][TitleNext]_vars

CallSpec == CallInit /\ [][CallNext]_vars

FormSpec == FormInit /\ [][FormNext]_vars

TriggerSpec == TriggerInit /\ [][TriggerNext]_vars

SessionSpec == SessionInit /\ [][SessionNext]_vars

GoalSpec == GoalInit /\ [][GoalNext]_vars

ConfigSpec == ConfigInit /\ [][ConfigNext]_vars

RetrySpec == RetryInit /\ [][RetryNext]_vars

\* every attempt, every wait and the fallback are synchronous calls that come
\* back: a call that can take its next step takes it
RetryLiveSpec == RetrySpec /\ WF_vars(RetryNext)

----------------------------------------------------------------------------
(* Properties of the matcher *)

\* equality and containment of two strings, ignoring case
EqIgnoreCase(a, b) == toLowerCase(a) = toLowerCase(b)

ContainsIgnoreCase(a, b) == includes(toLowerCase(a), toLowerCase(b))

\* the positions of the candidates whose identifier is the extracted one
IdCandidates ==
    {i \in 1..Len(allClients) :
        EqIgnoreCase(allClients[i].id, appointment.extractedClientId)}

\* the positions of the candidates whose name is the extracted one
NameCandidates ==
    {i \in 1..Len(allClients) :
        EqIgnoreCase(allClients[i].name, appointment.extractedClientName)}

First(S) == CHOOSE i \in S : \A j \in S : i <= j

\* C1: when extractedClientId is non-empty and equals, ignoring case, the
\* identifier of some candidate, the search returns that candidate (the
\* first such in list order) and the attached confidence is 'high', whatever
\* the names are.
C1_IdMatchIsHigh ==
    (/\ pc = "enhanced"
     /\ Truthy(appointment.extractedClientId)
     /\ IdCandidates # {})
    => /\ matchedClient = allClients[First(IdCandidates)]
       /\ matchConfidence = "high"

\* C1 happens: the identifier selects the second candidate although the
\* first candidate carries the extracted name.
C1_Witness ==
    /\ pc = "enhanced"
    /\ Len(allClients) = 2
    /\ Truthy(appointment.extractedClientId)
    /\ IdCandidates = {2}
    /\ Truthy(appointment.extractedClientName)
    /\ NameCandidates = {1}
    /\ matchedClient = allClients[2]
    /\ matchConfidence = "high"

\* C3: when extractedClientId is empty and extractedClientName equals,
\* ignoring case, the name of exactly one candidate, the search returns that
\* candidate with confidence 'high' (names with leading or trailing
\* whitespace included).
C3_ExactNameIsHigh ==
    (/\ pc = "enhanced"
     /\ ~Truthy(appointment.extractedClientId)
     /\ Truthy(appointment.extractedClientName)
     /\ Cardinality(NameCandidates) = 1)
    => /\ matchedClient = allClients[First(NameCandidates)]
       /\ matchConfidence = "high"

\* no candidate shares the identifier or overlaps the name of the appointment
NoOverlap ==
    /\ Truthy(appointment.extractedClientId) => IdCandidates = {}
    /\ Truthy(appointment.extractedClientName) =>
          \A i \in 1..Len(allClients) :
             /\ ~EqIgnoreCase(allClients[i].name, appointment.extractedClientName)
             /\ ~ContainsIgnoreCase(allClients[i].name, appointment.extractedClientName)
             /\ ~ContainsIgnoreCase(appointment.extractedClientName, allClients[i].name)

\* C6: with no identifier or name overlap the search returns no client and
\* the attached confidence is 'none'.
C6_NoOverlapIsNone ==
    (pc = "enhanced" /\ NoOverlap)
    => (matchedClient = Null /\ matchConfidence = "none")

\* C7: the confidence attached to a search result is the confidence of the
\* rule that selected it: 'high' for identifier or exact-name selection,
\* 'medium' for partial containment, never 'low'.
C7_ConfidenceOfSelectingRule ==
    (pc = "enhanced" /\ matchedClient # Null)
    => matchConfidence =
          (IF selectedBy(appointment, allClients) \in {"id", "exact"}
           THEN "high" ELSE "medium")

\* the scoring rule as claimed: equality and containment of the raw fields
ClaimedConfidence(appt, client) ==
    IF client = Null THEN "none"
    ELSE IF \/ EqIgnoreCase(client.id, appt.extractedClientId)
            \/ EqIgnoreCase(client.name, appt.extractedClientName)
    THEN "high"
    ELSE IF \/ ContainsIgnoreCase(client.name, appt.extractedClientName)
            \/ ContainsIgnoreCase(appt.extractedClientName, client.name)
    THEN "medium"
    ELSE "low"

\* the scoring rule with a comparison counting only between non-empty fields
GuardedConfidence(appt, client) ==
    IF client = Null THEN "none"
    ELSE IF \/ /\ appt.extractedClientId # <<>>
               /\ client.id # <<>>
               /\ EqIgnoreCase(client.id, appt.extractedClientId)
            \/ /\ appt.extractedClientName # <<>>
               /\ client.name # <<>>
               /\ EqIgnoreCase(client.name, appt.extractedClientName)
    THEN "high"
    ELSE IF /\ appt.extractedClientName # <<>>
            /\ client.name # <<>>
            /\ \/ ContainsIgnoreCase(client.name, appt.extractedClientName)
               \/ ContainsIgnoreCase(appt.extractedClientName, client.name)
    THEN "medium"
    ELSE "low"

\* C8 as claimed: for any supplied pair the confidence is 'none' for an
\* absent client, 'high' on identifier or name equality ignoring case,
\* 'medium' on name containment in either direction, 'low' otherwise.
C8_ScoringRule ==
    pc = "scored" => matchConfidence = ClaimedConfidence(appointment, scoredClient)

\* C8 amended: the same rule, where an equality or a containment counts only
\* when both compared fields are non-empty.
C8_ScoringRuleNonEmpty ==
    pc = "scored" => matchConfidence = GuardedConfidence(appointment, scoredClient)

\* C8 happens: a supplied client whose name is non-empty is scored against an
\* appointment with no extracted name and another identifier, and gets 'low'.
C8_Witness ==
    /\ pc = "scored"
    /\ scoredClient # Null
    /\ scoredClient.name # <<>>
    /\ appointment.extractedClientName = <<>>
    /\ appointment.extractedClientId # <<>>
    /\ matchConfidence = "low"

\* C9: in every match result, the error result included, the confidence is
\* 'none' exactly when no client is attached, and hasClientMatch tells
\* whether one is.
C9_NoneIffNoClient ==
    pc \in {"enhanced", "unavailable", "matchError"}
    => /\ (matchConfidence = "none") <=> (matchedClient = Null)
       /\ hasClientMatch <=> (matchedClient # Null)

\* C9 happens: a client is attached although the scoring finds nothing in
\* common with it, and the label is 'low', not 'none'.
C9_Witness ==
    /\ pc = "enhanced"
    /\ matchedClient # Null
    /\ hasClientMatch
    /\ matchConfidence = "low"

\* the test of the rule that selected the result
RuleTest(rule, client) ==
    CASE rule = "id" -> idTest(appointment, client)
      [] rule = "exact" -> exactTest(appointment, client)
      [] rule = "partial" -> partialTest(appointment, client)
      [] OTHER -> FALSE

\* the reorderings of 1..n
Reorderings(n) ==
    {f \in [1..n -> 1..n] : \A i, j \in 1..n : f[i] = f[j] => i = j}

\* f keeps the candidates that satisfy the rule in their relative order
KeepsOrderOfHits(f, rule) ==
    \A i, j \in DOMAIN f :
        (/\ i < j
         /\ RuleTest(rule, allClients[f[i]])
         /\ RuleTest(rule, allClients[f[j]])) => f[i] < f[j]

\* C10: the search returns one client of the list or none; the client
\* returned is the first, in list order, of the candidates that satisfy the
\* rule that fired; and moving the other candidates around never changes it.
C10_FirstInListOrder ==
    pc = "enhanced" =>
        LET rule == selectedBy(appointment, allClients)
            hits == {i \in 1..Len(allClients) : RuleTest(rule, allClients[i])}
        IN  /\ (rule = "none") <=> (matchedClient = Null)
            /\ rule # "none" => matchedClient = allClients[First(hits)]
            /\ \A f \in Reorderings(Len(allClients)) :
                  KeepsOrderOfHits(f, rule) =>
                     matchAppointmentToClient(appointment,
                        [i \in 1..Len(allClients) |-> allClients[f[i]]])
                     = matchedClient

\* C10 happens: two different candidates satisfy the partial rule and the
\* first one is returned.
C10_Witness ==
    /\ pc = "enhanced"
    /\ Len(allClients) = 2
    /\ allClients[1] # allClients[2]
    /\ selectedBy(appointment, allClients) = "partial"
    /\ partialTest(appointment, allClients[1])
    /\ partialTest(appointment, allClients[2])
    /\ matchedClient = allClients[1]

\* the appointment without its extracted identifier
WithoutId == [appointment EXCEPT !.extractedClientId = <<>>]

\* C11 as claimed: name matching is attempted only when extractedClientId is
\* empty, so an appointment whose non-empty extractedClientId equals no
\* candidate identifier yields no client.
C11_NameOnlyWithoutId ==
    (/\ pc = "enhanced"
     /\ Truthy(appointment.extractedClientId)
     /\ IdCandidates = {})
    => matchedClient = Null

\* C11 amended: name matching is attempted when extractedClientId is empty
\* or equals no candidate identifier; in the second case the result is the
\* one the name searches give for the same appointment without identifier.
\* When the identifier equals a candidate's, the names play no part.
C11_NameWhenIdFindsNothing ==
    (pc = "enhanced" /\ Truthy(appointment.extractedClientId))
    => IF IdCandidates = {}
       THEN /\ matchedClient = matchAppointmentToClient(WithoutId, allClients)
            /\ selectedBy(appointment, allClients) \in {"exact", "partial", "none"}
            /\ (/\ Truthy(appointment.extractedClientName)
                /\ \E i \in 1..Len(allClients) :
                      partialTest(appointment, allClients[i])) => matchedClient # Null
       ELSE /\ matchedClient = allClients[First(IdCandidates)]
            /\ selectedBy(appointment, allClients) = "id"

\* C11 happens: the extracted identifier equals no candidate's and a
\* candidate is returned because its name is the extracted name.
C11_Witness ==
    /\ pc = "enhanced"
    /\ Truthy(appointment.extractedClientId)
    /\ IdCandidates = {}
    /\ matchedClient # Null
    /\ EqIgnoreCase(matchedClient.name, appointment.extractedClientName)
    /\ selectedBy(appointment, allClients) = "exact"

----------------------------------------------------------------------------
(* Properties of the pipe-delimited list helpers *)

\* how many entries of items equal x
Count(items, x) == Cardinality({i \in 1..Len(items) : items[i] = x})

\* the same items with the same multiplicities
IsPermutation(a, b) ==
    \A x \in Range(a) \cup Range(b) : Count(a, x) = Count(b, x)

\* C2: for every text and every newOrder, parse(reorderItems(text, newOrder))
\* is a permutation of parse(text): no item gained, none lost.
C2_ReorderIsPermutation ==
    op = "reorderItems" => IsPermutation(parse(result), parse(data))

\* the item is refused as a duplicate
IsDuplicate == ~flag /\ trim(arg) \in Range(parse(data))

\* C4 as claimed: a refused duplicate returns the text unchanged; in every
\* other case the result parses to parse(text) followed by the trimmed item
\* as one new last element.
C4_AddAppendsOneItem ==
    op = "addItem" =>
        IF IsDuplicate THEN result = data
        ELSE parse(result) = Append(parse(data), trim(arg))

\* C4 amended: a refused duplicate returns the text unchanged; otherwise an
\* item that is non-blank and holds no separator becomes the one new last
\* element, and any other item (empty, blank, or holding separators) adds
\* its own parsed pieces, possibly none, after parse(text).
C4_AddAppendsParsedItem ==
    op = "addItem" =>
        IF IsDuplicate THEN result = data
        ELSE IF trim(arg) # <<>> /\ "|" \notin Range(arg)
        THEN parse(result) = Append(parse(data), trim(arg))
        ELSE parse(result) = parse(data) \o parse(arg)

\* C4 happens: add("A|B", "A", true) = "A|B|A".
C4_Witness ==
    /\ op = "addItem"
    /\ data = <<"A", "|", "B">>
    /\ arg = <<"A">>
    /\ flag
    /\ result = <<"A", "|", "B", "|", "A">>

\* C5: removeItem is idempotent, and its result holds no entry equal to the
\* trimmed item.
C5_RemoveIdempotent ==
    op = "removeItem" =>
        /\ removeItem(result, arg) = result
        /\ trim(arg) \notin Range(parse(result))

\* C5 happens: the item, given untrimmed, occurs twice in the text and both
\* occurrences are removed.
C5_Witness ==
    /\ op = "removeItem"
    /\ arg # trim(arg)
    /\ Count(parse(data), trim(arg)) = 2
    /\ result # data


\* an item the round trip is stated for: not empty, equal to its trimmed
\* form, and free of the separator
WellFormedItem(item) ==
    /\ item # <<>>
    /\ trim(item) = item
    /\ "|" \notin Range(item)

\* C12: parsing the text stringify produced gives back the items, in order,
\* for every sequence of non-empty, trim-stable, separator-free items,
\* the empty sequence (serialized as the empty text) included.
C12_RoundTrip ==
    (/\ op = "parse"
     /\ \A i \in 1..Len(list) : WellFormedItem(list[i]))
    => /\ data = stringify(list)
       /\ result = list
       /\ (list = <<>> => data = <<>>)

C12_Witness ==
    /\ op = "parse"
    /\ Len(list) = 2
    /\ \A i \in 1..Len(list) : WellFormedItem(list[i])
    /\ list[1] # list[2]
    /\ data = list[1] \o <<"|">> \o list[2]
    /\ result = list

\* the places of the separators of a text, with the two ends of the text
SepPositions(text) == {0, Len(text) + 1} \cup {i \in 1..Len(text) : text[i] = "|"}

\* two neighbouring separators (or ends) with nothing but whitespace between
HasEmptySegment(text) ==
    \E a \in SepPositions(text), b \in SepPositions(text) :
        /\ a < b
        /\ \A c \in SepPositions(text) : ~(a < c /\ c < b)
        /\ \A k \in (a + 1)..(b - 1) : text[k] \in WhiteSpace

\* the canonical serialized form; the empty list is the empty text
Canonical(text) ==
    \/ text = <<>>
    \/ /\ text[1] # "|"
       /\ text[Len(text)] # "|"
       /\ ~HasEmptySegment(text)

\* the helper that ran went as far as its call of stringify
Reserialized ==
    \/ op = "addItem" /\ Truthy(arg)
                      /\ (flag \/ trim(arg) \notin Range(parse(data)))
    \/ op = "removeItem" /\ Truthy(data) /\ Truthy(arg)
    \/ op = "updateItem" /\ Truthy(data) /\ Truthy(arg) /\ Truthy(arg2)
    \/ op = "reorderItems" /\ Truthy(data)
    \/ op \in {"merge", "clean"}

\* the item a helper writes into the list holds no separator
WritesNoSeparator ==
    /\ op = "addItem" => "|" \notin Range(arg)
    /\ op = "updateItem" => "|" \notin Range(arg2)

\* C13 as stated: every text a mutator re-serializes is canonical.
C13_AlwaysCanonical == Reserialized => Canonical(result)

\* C13: the text re-serialized by removeItem, reorderItems, merge and clean,
\* and by addItem and updateItem when the item they write holds no '|',
\* never starts or ends with '|' and has no empty or blank segment.
C13_CanonicalWithoutSeparator ==
    (Reserialized /\ WritesNoSeparator) => Canonical(result)

C13_Witness ==
    /\ op = "removeItem"
    /\ Reserialized
    /\ ~Canonical(data)
    /\ "|" \in Range(result)
    /\ Canonical(result)

\* parse(text) with every entry equal to the trimmed oldItem replaced by
\* the trimmed newItem, position by position
Replaced(text, oldItem, newItem) ==
    [i \in 1..Len(parse(text)) |->
        IF parse(text)[i] = trim(oldItem) THEN trim(newItem) ELSE parse(text)[i]]

\* C14 as stated: whatever newItem is, the result has the length of
\* parse(text) and differs from it exactly where oldItem stood.
C14_UpdateKeepsLength ==
    op = "updateItem" => parse(result) = Replaced(data, arg, arg2)

\* C14: when the trimmed newItem is not empty and holds no '|', updateItem
\* replaces every entry equal to the trimmed oldItem by the trimmed newItem
\* and keeps all other entries and all positions; an empty newItem leaves the
\* text as it is, and a blank newItem drops the entries that held oldItem.
C14_UpdateReplacesEvery ==
    op = "updateItem"
    => /\ WellFormedItem(trim(arg2)) => parse(result) = Replaced(data, arg, arg2)
       /\ ~Truthy(arg2) => result = data
       /\ (Truthy(arg2) /\ trim(arg2) = <<>>)
          => parse(result) = SelectSeq(parse(data), LAMBDA item : item # trim(arg))

C14_Witness ==
    /\ op = "updateItem"
    /\ WellFormedItem(trim(arg2))
    /\ arg2 # trim(arg2)
    /\ arg # trim(arg)
    /\ trim(arg2) # trim(arg)
    /\ Count(parse(data), trim(arg)) = 2
    /\ Len(parse(result)) = 2
    /\ Count(parse(result), trim(arg2)) = 2

\* removeItem or updateItem ran on an item that is not in the list
AbsentItem ==
    /\ op \in {"removeItem", "updateItem"}
    /\ trim(arg) \notin Range(parse(data))

\* the helper returned before parsing: an argument was empty
ReturnedEarly ==
    \/ ~Truthy(data)
    \/ ~Truthy(arg)
    \/ op = "updateItem" /\ ~Truthy(arg2)

\* no whitespace next to a separator or at an end of the text
TrimmedSegments(text) ==
    \A k \in 1..Len(text) :
        text[k] \in WhiteSpace
        => (k - 1) \notin SepPositions(text) /\ (k + 1) \notin SepPositions(text)

\* C15 as stated: on an absent item the returned text equals the input text,
\* canonical or not.
C15_AbsentItemSameText == AbsentItem => result = data

\* C15: on an absent item removeItem and updateItem leave the list as it
\* is: the result parses to parse(text). The text itself is returned
\* unchanged when an argument is empty or the text is canonical with trimmed
\* segments; any other text comes back re-serialized.
C15_AbsentItemSameList ==
    AbsentItem
    => /\ parse(result) = parse(data)
       /\ ReturnedEarly => result = data
       /\ ~ReturnedEarly => result = stringify(parse(data))
       /\ (Canonical(data) /\ TrimmedSegments(data)) => result = data
       /\ ReturnedEarly \/ (Canonical(result) /\ TrimmedSegments(result))

C15_Witness ==
    /\ AbsentItem
    /\ ~ReturnedEarly
    /\ parse(data) # <<>>
    /\ result # data
    /\ parse(result) = parse(data)

\* the parsed items of the texts of a list, one text after the other
RECURSIVE Concatenation(_)
Concatenation(texts) ==
    IF texts = <<>> THEN <<>>
    ELSE Concatenation(SubSeq(texts, 1, Len(texts) - 1)) \o parse(texts[Len(texts)])

\* the place of the first occurrence of x in items
FirstIndex(items, x) ==
    CHOOSE i \in 1..Len(items) :
        items[i] = x /\ \A j \in 1..(i - 1) : items[j] # x

\* C16: merge returns the serialization of the concatenation of the parsed
\* texts in list order; with removeDuplicates every item of the
\* concatenation appears once, in the order of the first occurrences, and
\* without it every occurrence is kept.
C16_MergeConcatenates ==
    op = "merge"
    => LET all == Concatenation(list)
           merged == parse(result)
       IN  IF flag
           THEN /\ Range(merged) = Range(all)
                /\ \A i \in 1..Len(merged), j \in 1..Len(merged) :
                       i < j => FirstIndex(all, merged[i]) < FirstIndex(all, merged[j])
                /\ result = join(merged)
           ELSE /\ merged = all
                /\ result = join(all)

C16_Witness ==
    /\ op = "merge"
    /\ flag
    /\ Len(list) = 2
    /\ parse(list[1]) = << <<"A">>, <<"B">> >>
    /\ parse(list[2]) = << <<"B">>, <<"A">> >>
    /\ result = <<"A", "|", "B">>

\* the kinds of issue a validate result lists
IssueKinds(report) == {report.issues[i].kind : i \in 1..Len(report.issues)}

\* C17: validate lists an empty-items issue whenever the text has an empty
\* or blank segment, a duplicates issue whenever parse(text) repeats an item
\* (and then uniqueItemCount < itemCount), a line-break issue whenever an
\* item holds a newline, carriage return or tab, and valid is true exactly
\* when no issue is listed.
C17_ValidateReportsEachKind ==
    (op = "validate" /\ Truthy(data))
    => /\ HasEmptySegment(data) => "empty items" \in IssueKinds(result)
       /\ (\E i \in 1..Len(parse(data)), j \in 1..Len(parse(data)) :
               i # j /\ parse(data)[i] = parse(data)[j])
          => /\ "duplicate items" \in IssueKinds(result)
             /\ result.uniqueItemCount < result.itemCount
       /\ (\E i \in 1..Len(parse(data)) : Range(parse(data)[i]) \cap LineBreaks # {})
          => "items with line breaks or tabs" \in IssueKinds(result)
       /\ result.valid <=> result.issues = <<>>

\* no item occurs twice
NoRepeats(items) ==
    \A i \in 1..Len(items), j \in 1..Len(items) : items[i] = items[j] => i = j

\* C18: in clean every option governs its own effect and nothing else: with
\* removeDuplicates the output repeats no item, with removeEmpty it has no
\* blank entry, with trimItems its entries are trimmed, with
\* removeLineBreaks it holds no newline or tab, whatever the other options
\* are; an option that is off leaves its effect out, so blank entries stay
\* without removeEmpty and the text comes back as it was with all four off.
C18_OptionsIndependent ==
    (op = "clean" /\ Truthy(data))
    => /\ opts.removeDuplicates => NoRepeats(parse(result))
       /\ opts.removeEmpty => (result = <<>> \/ ~HasEmptySegment(result))
       /\ opts.trimItems => TrimmedSegments(result)
       /\ opts.removeLineBreaks => Range(result) \cap LineBreaks = {}
       /\ (~opts.removeEmpty /\ ~opts.removeDuplicates)
          => Len(split(result)) = Len(split(data))
       /\ (~opts.removeDuplicates /\ ~opts.removeEmpty
           /\ ~opts.trimItems /\ ~opts.removeLineBreaks) => result = data

\* a list with every entry equal to x replaced by the entries of pieces
RECURSIVE Expand(_, _, _)
Expand(items, x, pieces) ==
    IF items = <<>> THEN <<>>
    ELSE (IF Head(items) = x THEN pieces ELSE <<Head(items)>>)
         \o Expand(Tail(items), x, pieces)

\* addItem appended, or updateItem put in place of an entry, an item that
\* holds the separator
WroteSeparator ==
    \/ op = "addItem" /\ "|" \in Range(arg)
    \/ /\ op = "updateItem"
       /\ "|" \in Range(arg2)
       /\ Truthy(arg)
       /\ trim(arg) \in Range(parse(data))

\* the item that was written
Written == IF op = "addItem" THEN arg ELSE arg2

\* C19 as stated: after an item holding '|' is written by addItem or
\* updateItem, contains does not find it and the list is longer by the
\* number of its non-empty pieces.
C19_CountGrowsByPieces ==
    WroteSeparator
    => /\ ~contains(result, Written)
       /\ getCount(result) = getCount(data) + Len(parse(Written))

\* C19: an item holding '|' is written unescaped and re-parsed as its
\* non-empty pieces, so contains does not find it; addItem makes the list
\* longer by the number of pieces, updateItem puts the pieces in place of
\* every entry that held oldItem, which makes the list longer by the number
\* of pieces less one for each such entry.
C19_SeparatorSplitsOnWrite ==
    WroteSeparator
    => /\ ~contains(result, Written)
       /\ op = "addItem"
          => /\ parse(result) = parse(data) \o parse(arg)
             /\ getCount(result) = getCount(data) + Len(parse(arg))
       /\ op = "updateItem"
          => /\ parse(result) = Expand(parse(data), trim(arg), parse(arg2))
             /\ getCount(result) = getCount(data)
                  + Count(parse(data), trim(arg)) * (Len(parse(arg2)) - 1)

C19_Witness ==
    /\ WroteSeparator
    /\ op = "updateItem"
    /\ Len(parse(arg2)) = 2
    /\ Count(parse(data), trim(arg)) = 2
    /\ getCount(result) = 4
    /\ ~contains(result, arg2)

\* the separators (and the start of the text) after which a non-blank
\* segment begins
NonBlankStarts(text) ==
    {a \in SepPositions(text) \ {Len(text) + 1} :
        \E b \in SepPositions(text) :
            /\ a < b
            /\ \A c \in SepPositions(text) : ~(a < c /\ c < b)
            /\ \E k \in (a + 1)..(b - 1) : text[k] \notin WhiteSpace}

\* the k-th non-blank segment of a text, trimmed
NonBlankSegment(text, k) ==
    LET a == CHOOSE s \in NonBlankStarts(text) :
                 Cardinality({t \in NonBlankStarts(text) : t <= s}) = k
        b == CHOOSE s \in SepPositions(text) :
                 a < s /\ \A c \in SepPositions(text) : ~(a < c /\ c < s)
    IN  trim(SubSeq(text, a + 1, b - 1))

\* C20: parse returns, in order, the trimmed pieces of the text between
\* separators, without the pieces that are blank; the empty text and a
\* value that is not a string give the empty sequence; no returned item is
\* empty, untrimmed or holds '|'.
C20_ParseTrimsAndDrops ==
    /\ op = "parse"
       => /\ Len(result) = Cardinality(NonBlankStarts(data))
          /\ \A k \in 1..Len(result) :
                 /\ result[k] = NonBlankSegment(data, k)
                 /\ WellFormedItem(result[k])
          /\ data = <<>> => result = <<>>
    /\ op = "parseNonString" => result = <<>>

C20_Witness ==
    /\ op = "parse"
    /\ HasEmptySegment(data)
    /\ Len(result) = 2
    /\ result[1] # result[2]

----------------------------------------------------------------------------
(* Properties of the title parser *)

\* the positions of s that lie in an occurrence of a keyword, in any case
KeywordPositions(s) ==
    UNION {i..(keywordEnd(s, i) - 1) :
              i \in {j \in 1..Len(s) : keywordEnd(s, j) # 0}}

\* position k of s lies in a parenthesized group, parentheses included
InParentheses(s, k) ==
    \E a \in 1..k, b \in k..Len(s) :
        /\ s[a] = "("
        /\ s[b] = ")"
        /\ \A m \in (a + 1)..(b - 1) : s[m] # ")"

\* position k of s holds a hyphen next to a keyword, blanks aside
AdjacentHyphen(s, k) ==
    /\ s[k] = "-"
    /\ \/ keywordEnd(s, skipSpace(s, k + 1)) # 0
       \/ \E i \in 1..k : keywordEnd(s, i) # 0 /\ skipSpace(s, keywordEnd(s, i)) = k

\* the characters of s at the positions of a set, in order
RECURSIVE CharsAt(_, _)
CharsAt(s, positions) ==
    IF s = <<>> THEN <<>>
    ELSE CharsAt(SubSeq(s, 1, Len(s) - 1), positions)
         \o (IF Len(s) \in positions THEN <<s[Len(s)]>> ELSE <<>>)

\* the title without its parenthesized groups and its keywords
Kept(s) ==
    LET keywords == KeywordPositions(s)
    IN  CharsAt(s, {k \in 1..Len(s) :
                       k \notin keywords /\ ~InParentheses(s, k)})

\* a text without its blanks and hyphens
Squeeze(s) == CharsAt(s, {k \in 1..Len(s) : s[k] \notin WhiteSpace \cup {"-"}})

\* the name as C22 words it: parenthesized groups, keywords and the hyphen
\* next to a keyword taken out, the rest trimmed, the title when nothing is left
ClaimedName(s) ==
    LET keywords == KeywordPositions(s)
        rest == trim(CharsAt(s, {k \in 1..Len(s) :
                        /\ k \notin keywords
                        /\ ~InParentheses(s, k)
                        /\ ~AdjacentHyphen(s, k)}))
    IN  IF rest = <<>> THEN s ELSE rest

\* the identifier as C22 words it: the content of the first parenthesized
\* token of uppercase letters and digits, empty when there is none
ClaimedId(s) ==
    LET tokens == {p \in {k \in 1..Len(s) : s[k] = "("} \X (1..Len(s)) :
                      /\ p[1] + 1 < p[2]
                      /\ s[p[2]] = ")"
                      /\ \A k \in (p[1] + 1)..(p[2] - 1) : s[k] \in UpperOrDigit}
    IN  IF tokens = {} THEN <<>>
        ELSE LET p == CHOOSE q \in tokens : \A r \in tokens : q[1] <= r[1]
             IN  SubSeq(s, p[1] + 1, p[2] - 1)

----------------------------------------------------------------------------
(* Properties of calls with arguments of any type *)

\* what each function returns from its catch block
DegradedValue ==
    CASE called = "matchAppointmentToClient" -> JSNull
      [] called = "calculateMatchConfidence" -> Str(<<"l", "o", "w">>)
      [] called = "extractClientFromTitle" -> Obj(Str(<<>>), actual[1])
      [] called = "parse" -> Arr(<<>>)
      [] called \in {"stringify", "merge"} -> Str(<<>>)
      [] called = "contains" -> Bool(FALSE)
      [] called = "getCount" -> Num(0)
      [] called = "validate" -> Obj(Bool(FALSE), Num(0))
      [] OTHER -> orEmpty(actual[1])

\* C21: no call ends with an exception, whatever the types of its
\* arguments: an exception raised inside is caught and the function returns
\* its neutral value (null, 'low', the original text or '', the empty
\* sequence, false, 0, a not-valid report); an absent client scores 'none'.
C21_NeverThrows ==
    called # "none"
    => /\ ~outcome.threw
       /\ outcome.caught => outcome.value = DegradedValue
       /\ (called = "calculateMatchConfidence" /\ ~IsTruthy(actual[2]))
          => outcome.value = Str(<<"n", "o", "n", "e">>)

\* a null appointment with a client in the list: the TypeError is caught
C21_Witness ==
    /\ called = "matchAppointmentToClient"
    /\ actual[1] = JSNull
    /\ actual[3].type = "array"
    /\ Len(actual[3].parts) = 2
    /\ outcome.caught
    /\ ~outcome.threw
    /\ outcome.value = JSNull

----------------------------------------------------------------------------
(* Properties of form data persistence *)

\* the append step of the processed response wrote to the client's row
AppendSucceeded ==
    /\ formPc = "processed"
    /\ \E i \in 1..Len(formCalls) :
          formCalls[i] = [call |-> "appendToClientData", ok |-> TRUE]

\* the Session_History column of the client's row before and after the call,
\* and the entry built from the response
HistoryBefore == rowsBefore[1].Session_History

HistoryAfter == clientRows[1].Session_History

SubmittedEntry ==
    newEntry(formResponse.timestamp, formResponse.response.SESSION_NOTES)

\* C23 as stated: once a response with a value for the append-type column has
\* been written, the column parses to its previous items, in their order,
\* followed by exactly one new last item: the timestamp marker and the
\* submitted value.
C23_AppendsExactlyOne ==
    AppendSucceeded =>
        parse(HistoryAfter) = Append(parse(HistoryBefore), trim(SubmittedEntry))

\* C23 amended: the column parses to its previous items, in their order,
\* followed by the pieces of the new entry (at least one, starting with the
\* timestamp marker); when the submitted value holds no '|' that is exactly
\* one new last item, also when the column already held an identical entry.
C23_AppendsEntry ==
    AppendSucceeded =>
        /\ parse(HistoryAfter) = parse(HistoryBefore) \o parse(SubmittedEntry)
        /\ Len(parse(HistoryAfter)) > Len(parse(HistoryBefore))
        /\ "|" \notin Range(formResponse.response.SESSION_NOTES) =>
              parse(HistoryAfter) =
                  Append(parse(HistoryBefore), trim(SubmittedEntry))

\* an entry identical to a stored one has been appended once more
C23_Witness ==
    /\ AppendSucceeded
    /\ HistoryBefore = newEntry(<<"1">>, <<"a">>)
    /\ SubmittedEntry = HistoryBefore
    /\ parse(HistoryAfter) = <<HistoryBefore, HistoryBefore>>

\* the calls of the processed response that write to the client's row
ClientUpdates ==
    {i \in 1..Len(formCalls) :
        formCalls[i].call \in {"updateClient", "appendToClientData"}}

NoClientId ==
    /\ formPc = "processed"
    /\ \/ ~formResponse.response.valid
       \/ ~Truthy(extractClientId(formResponse.response, rowsBefore))

\* C26: processFormResponse orders its writes by success: the append-type
\* update is attempted only after the replace-type update succeeded or was not
\* needed; the session is marked 'completed' only if every client update
\* succeeded and a session id was extracted; true is returned only if every
\* attempted client update succeeded; and without a client id it returns false
\* and writes to no client or session record.
C26_WritesOrderedBySuccess ==
    formPc = "processed" =>
        /\ \A i \in ClientUpdates :
              formCalls[i].call = "appendToClientData" =>
                  \A j \in ClientUpdates : j < i => formCalls[j].ok
        /\ (\/ sessionRows[1].Status = "completed"
            \/ \E i \in 1..Len(formCalls) :
                  formCalls[i].call = "updateSessionStatus")
           => /\ \A i \in ClientUpdates : formCalls[i].ok
              /\ Truthy(extractSessionId(formResponse.response))
        /\ formReturned => \A i \in ClientUpdates : formCalls[i].ok
        /\ NoClientId =>
              /\ ~formReturned
              /\ formCalls = <<>>
              /\ clientRows = rowsBefore
              /\ sessionRows = <<SessionRow>>

\* the replace-type update failed: the submitted notes were not appended, the
\* session stays as it was and false is returned
C26_Witness ==
    /\ formPc = "processed"
    /\ formCalls = <<[call |-> "updateClient", ok |-> FALSE]>>
    /\ Truthy(formResponse.response.SESSION_NOTES)
    /\ Truthy(formResponse.response.Session_ID)
    /\ ~formReturned
    /\ sessionRows[1].Status = "scheduled"
    /\ clientRows = rowsBefore

----------------------------------------------------------------------------
(* Properties of the form submission trigger *)

\* C25: across the runs of processNewFormResponses, no response is handed to
\* processFormResponse more than once.
C25_HandedAtMostOnce ==
    \A i \in 1..Len(handedOver) : handedOver[i] <= 1

\* C25: the stored LAST_PROCESSED timestamp never decreases, and once stored it
\* stays stored.
C25_TimestampNeverDecreases ==
    [][/\ lastProcessedOf(lastProcessedProperty') >=
              lastProcessedOf(lastProcessedProperty)
       /\ lastProcessedProperty.set => lastProcessedProperty'.set]_vars

----------------------------------------------------------------------------
(* Properties of calendar access with retries *)

\* the errors the claim lists as not to be retried
NonRetryableMessages ==
    {PermissionMessage, AccessDeniedMessage, CalendarNotFoundMessage,
     InvalidCalendarMessage}

Ended == retryPc \in {"returned", "raised"}

\* the protocol of one call, as far as it has got
RetryProtocol ==
    \* at most MAX_RETRIES primary attempts, the first success ends the call
    /\ primaryAttempts <= MAX_RETRIES
    /\ retryResult = "primary" =>
          /\ retryPc = "returned"
          /\ primaryAttempts = Len(errors) + 1
          /\ fallbackOutcome = "none"
    /\ retryResult # "primary" => primaryAttempts = Len(errors)
    \* no primary attempt after an error that is not to be retried
    /\ \A i \in 1..Len(errors) :
          errors[i] \in NonRetryableMessages =>
              /\ primaryAttempts = i
              /\ retryPc # "attempt"
    \* a wait of RETRY_DELAY_MS * attempt after each failed attempt that is
    \* followed by another one, and no other wait
    /\ \A i \in 1..Len(sleeps) :
          sleeps[i] = [after |-> i, ms |-> RETRY_DELAY_MS * i]
    /\ Len(sleeps) < MAX_RETRIES
    /\ retryPc = "attempt" => Len(sleeps) = primaryAttempts
    /\ retryPc \notin {"idle", "attempt"} => Len(sleeps) = primaryAttempts - 1
    \* the fallback runs once, and only after no primary attempt succeeded
    /\ fallbackOutcome # "none" =>
          /\ retryResult # "primary"
          /\ Len(errors) = primaryAttempts
          /\ primaryAttempts >= 1
          /\ Ended
    /\ (Ended /\ retryResult # "primary") => fallbackOutcome # "none"
    \* an error is raised exactly when the fallback failed too
    /\ retryPc = "raised" <=> fallbackOutcome = "failed"
    /\ retryPc = "raised" <=> retryResult = "error"
    /\ retryPc = "returned" <=> retryResult \in {"primary", "fallback"}

\* C24: getAppointmentsInRangeWithRetry follows a bounded retry protocol: at
\* most MAX_RETRIES primary attempts, the first success returned at once, no
\* primary attempt after an error that is not to be retried, a wait of
\* RETRY_DELAY_MS * attempt only between attempts, the fallback exactly once
\* and only when no primary attempt succeeded, an error raised exactly when
\* the fallback fails as well; and every call ends with a result or that error.
C24_BoundedRetryProtocol ==
    /\ []RetryProtocol
    /\ (retryPc = "attempt") ~> Ended

\* three attempts failed with errors worth retrying, with waits of 1000 and
\* 2000 ms between them and none after the third; the fallback failed too
C24_Witness ==
    /\ retryPc = "raised"
    /\ errors = <<TimeoutMessage, ServiceErrorMessage, TimeoutMessage>>
    /\ sleeps = <<[after |-> 1, ms |-> 1000], [after |-> 2, ms |-> 2000]>>
    /\ fallbackOutcome = "failed"

----------------------------------------------------------------------------
(* Properties of session records *)

\* the key of a session: the calendar day of its date and its client
SessionKey(date, clientId) == <<date.kind = "date", date.day, clientId>>

RowKey(row) == SessionKey(row.Date, row.Client_ID)

OneRowPerKey(rows) ==
    \A i, j \in 1..Len(rows) : RowKey(rows[i]) = RowKey(rows[j]) => i = j

\* the rows of the sheet before the call that have the key of the call
RowsOfKey ==
    {i \in 1..Len(sheetBefore) :
        RowKey(sheetBefore[i]) =
            SessionKey(sessionData.sessionDate, sessionData.clientId)}

Incomplete ==
    sessionData.sessionDate.kind = "none" \/ ~Truthy(sessionData.clientId)

\* C27: createOrUpdateSession is an upsert keyed by the calendar day of
\* sessionDate and the client id: the sheet keeps at most one row per key; a
\* call for an existing key overwrites that row in place and keeps its
\* Session_ID and Created_Date; a call for a new key appends exactly one row;
\* the rows of other keys are unchanged; a call without sessionDate or clientId
\* returns null and changes nothing.
C27_UpsertByDayAndClient ==
    /\ OneRowPerKey(sessionSheet)
    /\ sessionCalls > 0 =>
        IF Incomplete \/ ~sessionData.sheetUp
        THEN sessionReturned = 0 /\ sessionSheet = sheetBefore
        ELSE IF RowsOfKey # {}
        THEN \E i \in RowsOfKey :
                /\ Len(sessionSheet) = Len(sheetBefore)
                /\ \A j \in 1..Len(sheetBefore) :
                      j # i => sessionSheet[j] = sheetBefore[j]
                /\ sessionSheet[i] =
                      [Session_ID |-> sheetBefore[i].Session_ID,
                       Date |-> sessionData.sessionDate,
                       Client_ID |-> sessionData.clientId,
                       Status |-> sessionData.status,
                       Created_Date |-> sheetBefore[i].Created_Date,
                       Last_Updated |-> sessionCalls]
                /\ sessionReturned = sheetBefore[i].Session_ID
        ELSE /\ Len(sessionSheet) = Len(sheetBefore) + 1
             /\ SubSeq(sessionSheet, 1, Len(sheetBefore)) = sheetBefore
             /\ RowKey(sessionSheet[Len(sessionSheet)]) =
                    SessionKey(sessionData.sessionDate, sessionData.clientId)
             /\ sessionSheet[Len(sessionSheet)].Created_Date = sessionCalls
             /\ sessionReturned = sessionSheet[Len(sessionSheet)].Session_ID

\* the stored session of day 1 has been overwritten by a call for a later hour
\* of the same day, next to the row of another client
C27_Witness ==
    /\ Len(sheetBefore) = 2
    /\ sheetBefore[1] = StoredSession
    /\ sessionData.sessionDate = DateAt(1, 15)
    /\ sessionData.clientId = StoredSession.Client_ID
    /\ sessionData.sheetUp
    /\ sessionSheet[1].Date = DateAt(1, 15)
    /\ sessionSheet[1].Created_Date = 0
    /\ sessionSheet[1].Last_Updated = 2
    /\ sessionSheet[2] = sheetBefore[2]

----------------------------------------------------------------------------
(* Properties of goal management *)

\* how often a goal occurs in a list
Occurrences(goals, goal) == Cardinality({i \in 1..Len(goals) : goals[i] = goal})

\* the same goals with the same multiplicities
SameGoals(left, right) ==
    /\ Len(left) = Len(right)
    /\ \A goal \in Range(left) \cup Range(right) :
          Occurrences(left, goal) = Occurrences(right, goal)

\* C28: reorderGoals accepts only a reordering of exactly the same goals: on
\* success the stored list is a permutation of the list before, with the same
\* multiplicities; when reorderedGoals is no such permutation it raises an
\* error and leaves the stored goals unchanged.
C28_ReorderIsPermutation ==
    [][goalCall'.op = "reorderGoals" =>
          IF SameGoals(goalCall'.reorderedGoals, getGoals(goalsCell))
          THEN /\ ~goalThrew'
               /\ SameGoals(getGoals(goalsCell'), getGoals(goalsCell))
          ELSE /\ goalThrew'
               /\ goalsCell' = goalsCell]_vars

\* C29: a goal list with no two goals equal ignoring case stays so under
\* addGoal, updateGoal, removeGoal, reorderGoals, completeGoal and
\* bulkUpdateGoals, and a call that raises an error leaves the list unchanged.
C29_GoalsStayDistinct ==
    [][/\ DistinctIgnoringCase(getGoals(goalsCell)) =>
              DistinctIgnoringCase(getGoals(goalsCell'))
       /\ goalThrew' => goalsCell' = goalsCell]_vars

----------------------------------------------------------------------------
(* Properties of the configuration *)

\* what the three getters return for a stored property
Returned(config) ==
    [fieldMappings |-> getFieldMappings(config),
     persistentFields |-> getPersistentFields(config),
     spreadsheetConfig |-> getSpreadsheetConfig(config)]

\* the sections an operation is entitled to change
SectionsOf(operation) ==
    CASE operation = "updateFieldMappings" -> {"fieldMappings"}
      [] operation = "updatePersistentFields" -> {"persistentFields"}
      [] operation = "updateSpreadsheetConfig" -> {"spreadsheetConfig"}
      [] OTHER -> {"fieldMappings", "persistentFields", "spreadsheetConfig"}

\* C30: after every ConfigurationService operation, an update before any
\* configuration was stored included, each of the three getters returns a
\* defined mapping, and an update of one section leaves what the getters of
\* the other two sections return as it was.
C30_GettersStayDefined ==
    [][/\ \A name \in DOMAIN Returned(therapyConfig') :
             Returned(therapyConfig')[name].defined
       /\ \A name \in DOMAIN Returned(therapyConfig') \ SectionsOf(configCall'.op) :
             Returned(therapyConfig')[name] = Returned(therapyConfig)[name]]_vars

============================================================================
